---------------------------- MODULE Spec2Model ----------------------------
(***************************************************************************)
(* The daemon's health-check Scheduler                                     *)
(* (packages/daemon/src/lib/scheduler.ts) on Node's single-threaded event  *)
(* loop.  One step of the model is one event-loop task: a call of a public *)
(* method, the firing of an armed timer, or the settling of an awaited     *)
(* promise together with the synchronous code that follows it.             *)
(*                                                                         *)
(* Time is discrete and kept relative to the current instant: a timer      *)
(* holds the delay left until it fires, an awaited call the time it has    *)
(* been pending, and nextRunAt the offset from the present.  Advance lets  *)
(* one unit pass and ages all three.                                       *)
(***************************************************************************)
EXTENDS Integers, Sequences, FiniteSets, Bags, TLC

VARIABLES
    running,        \* Scheduler.running
    resultHandler,  \* Scheduler.resultHandler is defined
    checks,         \* Scheduler.checks: key -> ScheduledCheck
    timers,         \* Node's armed timeouts created by scheduleNext
    calls,          \* runCheck invocations suspended at an await
    last,           \* the step taken last (history, read by the properties only)
    window,         \* observation window since start(): time passed, invocations
                    \* counted per key (history, kept by WindowSpec only)
    pidFile,        \* content of the PID file: a pid, or NoPid when there is no file
    daemons,        \* per process: the process and its Daemon object
    reloadTimers,   \* Node's armed timeouts created by Daemon.scheduleReload
    apiClient,      \* the daemon's defaultClient singleton exists
    hist,           \* history of the daemon steps (read by the properties only)
    queue,          \* the CLI's event-queue file: the list of queued events
    cli,            \* history of the CLI's queue operations and event commands
    disk,           \* the configuration files: global config and project configs
    collected,      \* what the last call of collectRuntimes() came to
    duration,       \* a duration string and what parseDuration made of it
    probe,          \* a target handed to runHealthCheck and how the check went
    once            \* a call of runOnce(): where it is and what it has collected

schedVars == <<running, resultHandler, checks, timers, calls>>

daemonVars == <<pidFile, daemons, reloadTimers, apiClient, hist>>

queueVars == <<queue, cli>>

configVars == <<disk, collected, duration>>

checkerVars == <<probe, once>>

vars == <<running, resultHandler, checks, timers, calls, last, window,
          pidFile, daemons, reloadTimers, apiClient, hist, queue, cli,
          disk, collected, duration, probe, once>>

---------------------------------------------------------------------------
\* Bounds of the model

\* longest time a probe (checker plus result handler) stays pending
MaxDur == 1
\* most timers and suspended calls alive together; start() and reload()
\* are not taken when they would exceed it
MaxPending == 2
\* length of the observation window of WindowSpec
MaxWindow == 6

ProjectPaths == {"/p"}
Names == {"a", "b"}
\* the resolved intervalMs of the targets, in time units
IntervalMsOf == [a |-> 2, b |-> 1]
\* longest list collectRuntimes() returns: room for both names, or one twice
MaxRuntimes == Cardinality(Names)

Max(x, y) == IF x >= y THEN x ELSE y

---------------------------------------------------------------------------
\* Configuration

\* ResolvedRuntime, reduced to the fields the scheduler reads
ResolvedRuntime ==
    [projectPath : ProjectPaths, name : Names, intervalMs : 1..2, enabled : BOOLEAN]

\* the targets the configurations of the model are made of: "a" and "b" with
\* their intervals, "b" enabled or disabled (enabled: runtime.enabled !== false)
Targets ==
    {r \in ResolvedRuntime :
        r.intervalMs = IntervalMsOf[r.name] /\ (r.enabled \/ r.name = "b")}

\* what collectRuntimes() may return: any list of resolved runtimes, names
\* possibly repeated (the YAML list is not checked for duplicates); intervalMs
\* is never 0 (parseDuration(..) || DEFAULTS.CHECK_INTERVAL)
CollectRuntimes ==
    UNION { [1..n -> Targets] : n \in 0..MaxRuntimes }

\* `${runtime.projectPath}:${runtime.name}`
KeyOf(runtime) == <<runtime.projectPath, runtime.name>>

Keys == {KeyOf(r) : r \in ResolvedRuntime}

\* Date.now(), as an offset from the present
DateNow == 0

\* nextRunAt offsets are not aged below this (only an entry that is never
\* rescheduled gets there)
MinNextRunAt == 0 - MaxDur

---------------------------------------------------------------------------
\* Multisets (two timers, or two suspended calls, may agree in every field)

Size(B) == BagCardinality(B)

Empty == EmptyBag

\* B with one more copy of e
Put(B, e) == B (+) SetToBag({e})

\* B with one copy of e less
Take(B, e) == B (-) SetToBag({e})

\* the elements of B that satisfy Keep
Only(B, Keep(_)) == [x \in {y \in DOMAIN B : Keep(y)} |-> B[x]]

\* every element e of B replaced by F(e)
Map(B, F(_)) == BagOfAll(F, B)

---------------------------------------------------------------------------
\* The scheduler's state as one value, for the synchronous code paths.
\*
\* JavaScript object identity is kept in canonical form.  A Timeout handle is
\* referenced at most by the timerId of the check it was armed for: a timer
\* carries `handle`, TRUE while checks[key].timerId is this timer.  A suspended
\* runCheck captured one ScheduledCheck object: a call carries `current`, TRUE
\* while that object is the one the map holds under its key.
\* History fields, read by the properties only: a timer's `old` is TRUE once a
\* reload() has happened since it was armed, a call's `old` once a stop() or a
\* reload() has happened since it started.

Sched ==
    [running |-> running, resultHandler |-> resultHandler,
     checks |-> checks, timers |-> timers, calls |-> calls]

\* the object stored under `key` is replaced or dropped: the timer its timerId
\* names stays armed with no handle left to it, and the calls that captured it
\* hold an object the map no longer has
Detach(s, key) ==
    LET NoHandle(t) == IF t.key = key THEN [t EXCEPT !.handle = FALSE] ELSE t
        NotCurrent(c) == IF c.key = key THEN [c EXCEPT !.current = FALSE] ELSE c
    IN  [s EXCEPT !.timers = Map(@, NoHandle), !.calls = Map(@, NotCurrent)]

\* for (const check of this.checks.values()) if (check.timerId) clearTimeout(..);
\* this.checks.clear()
ClearChecks(s) ==
    LET Orphan(t) == ~t.handle
        NotCurrent(c) == [c EXCEPT !.current = FALSE, !.old = TRUE]
    IN  [s EXCEPT !.timers = Only(@, Orphan),
                  !.calls = Map(@, NotCurrent),
                  !.checks = << >>]

\* scheduleNext as it would be if it set nextRunAt and armed no timeout
ScheduleNext_NotArmed(s, key) ==
    IF key \notin DOMAIN s.checks \/ ~s.running
    THEN s
    ELSE [s EXCEPT !.checks[key].nextRunAt = DateNow + s.checks[key].runtime.intervalMs]

\* scheduleNext(key)
ScheduleNext(s, key) ==
    IF key \notin DOMAIN s.checks \/ ~s.running
    THEN s
    ELSE LET check == s.checks[key]
             NoHandle(t) == IF t.key = key THEN [t EXCEPT !.handle = FALSE] ELSE t
         IN  [s EXCEPT
                !.checks[key].nextRunAt = DateNow + check.runtime.intervalMs,
                !.checks[key].timerId = TRUE,
                !.timers = Put(Map(@, NoHandle),
                               [key |-> key, delay |-> check.runtime.intervalMs,
                                handle |-> TRUE, old |-> FALSE])]

\* runCheck as it would be with the re-arming of the skipped tick left out
RunCheck_SkipWithoutRearm(s, key) ==
    IF key \notin DOMAIN s.checks \/ ~s.running
    THEN s
    ELSE IF s.checks[key].running
    THEN s
    ELSE [s EXCEPT
            !.checks[key].running = TRUE,
            !.calls = Put(@, [key |-> key, current |-> TRUE, old |-> FALSE,
                              at |-> "runHealthCheck", elapsed |-> 0])]

\* runCheck as it would be if it armed the next timer when the probe starts
RunCheck_ArmsAtStart(s, key) ==
    IF key \notin DOMAIN s.checks \/ ~s.running
    THEN s
    ELSE IF s.checks[key].running
    THEN ScheduleNext(s, key)
    ELSE ScheduleNext([s EXCEPT
                          !.checks[key].running = TRUE,
                          !.calls = Put(@, [key |-> key, current |-> TRUE, old |-> FALSE,
                                            at |-> "runHealthCheck", elapsed |-> 0])], key)

\* runCheck(key) up to its first await: the guards, the single-flight test,
\* and the call of runHealthCheck
RunCheck(s, key) ==
    IF key \notin DOMAIN s.checks \/ ~s.running
    THEN s
    ELSE IF s.checks[key].running
    THEN ScheduleNext(s, key)
    ELSE [s EXCEPT
            !.checks[key].running = TRUE,
            !.calls = Put(@, [key |-> key, current |-> TRUE, old |-> FALSE,
                              at |-> "runHealthCheck", elapsed |-> 0])]

\* the finally block as it would be without check.running = false
RunCheckFinally_FlagLeftSet(s, call) ==
    ScheduleNext([s EXCEPT !.calls = Take(@, call)], call.key)

\* the finally block of runCheck, run by the call that captured `check`:
\* check.running = false on the captured object, then scheduleNext(key)
RunCheckFinally(s, call) ==
    LET key == call.key
        s1 == IF call.current
              THEN [s EXCEPT !.checks[key].running = FALSE]
              ELSE s
    IN  ScheduleNext([s1 EXCEPT !.calls = Take(@, call)], key)

\* scheduleCheck(runtime)
ScheduleCheck(s, runtime) ==
    LET key == KeyOf(runtime)
        check == [runtime |-> runtime, nextRunAt |-> DateNow, timerId |-> FALSE,
                  running |-> FALSE]
        s1 == Detach(s, key)
        s2 == [s1 EXCEPT !.checks = [k \in DOMAIN s.checks \cup {key} |->
                                       IF k = key THEN check ELSE s.checks[k]]]
    IN  RunCheck(s2, key)

\* loadRuntimes(), given what collectRuntimes() returned
RECURSIVE LoadRuntimes(_, _)
LoadRuntimes(s, runtimes) ==
    IF runtimes = <<>>
    THEN s
    ELSE LET runtime == Head(runtimes)
         IN  LoadRuntimes(IF ~runtime.enabled THEN s ELSE ScheduleCheck(s, runtime),
                          Tail(runtimes))

\* start as it would be without the test of the running flag
SchedulerStart_NoGuard(s, onResult, runtimes) ==
    LoadRuntimes([s EXCEPT !.running = TRUE, !.resultHandler = onResult], runtimes)

\* start(onResult): a no-op on a running scheduler
SchedulerStart(s, onResult, runtimes) ==
    IF s.running
    THEN s
    ELSE LoadRuntimes([s EXCEPT !.running = TRUE, !.resultHandler = onResult], runtimes)

\* stop(): a no-op on a stopped scheduler
SchedulerStop(s) ==
    IF ~s.running
    THEN s
    ELSE ClearChecks([s EXCEPT !.running = FALSE])

\* reload(): no test of the running flag; the timers that stay armed have
\* seen a reload
SchedulerReload(s, runtimes) ==
    LET Old(t) == [t EXCEPT !.old = TRUE]
        cleared == ClearChecks(s)
    IN  LoadRuntimes([cleared EXCEPT !.timers = Map(@, Old)], runtimes)

\* getStatus(): the running flag and one record per entry of the map
GetStatus(s) ==
    [running |-> s.running,
     checks |-> {[project |-> s.checks[k].runtime.projectPath,
                  runtime |-> s.checks[k].runtime.name,
                  intervalMs |-> s.checks[k].runtime.intervalMs,
                  nextRunAt |-> s.checks[k].nextRunAt,
                  isRunning |-> s.checks[k].running] : k \in DOMAIN s.checks}]

\* how the promise of runCheck settles when the awaited call at `site` throws:
\* both awaits are inside a try with a catch
RunCheckSettles(site, threw) ==
    IF threw /\ site \notin {"runHealthCheck", "resultHandler"}
    THEN "rejected"
    ELSE "fulfilled"

Pending(s) == Size(s.timers) + Size(s.calls)

Commit(s) ==
    /\ running' = s.running
    /\ resultHandler' = s.resultHandler
    /\ checks' = s.checks
    /\ timers' = s.timers
    /\ calls' = s.calls

NoKey == <<"", "">>

\* the record kept in `last`: the step, the key it was about, and how the
\* promise of runCheck settled if the step ended one
Did(op, key, promise) == [op |-> op, key |-> key, promise |-> promise]

---------------------------------------------------------------------------
\* The daemon processes and the PID file they share
\*
\* Process Self is the daemon whose Scheduler the variables above hold; of the
\* other hooks-daemon processes only the Daemon object and the process itself
\* are kept.  A process that has exited or was killed stays dead (its pid is
\* not given to another process).

Procs == {1, 2}

Self == 1

\* readPidFile() === null: no PID file
NoPid == 0

\* setTimeout(.., 1000) of scheduleReload, in time units of half a second
ReloadDebounce == 2

\* most registrations of the signal handlers one process makes (start() on a
\* Daemon registers them again; start() is not taken beyond this)
MaxHandlers == 2
\* most change notifications counted in one burst
MaxBurst == 2

\* what collectRuntimes() returns while the daemon processes are observed:
\* target "a" alone
DaemonRuntimes ==
    {runtimes \in CollectRuntimes : Len(runtimes) = 1 /\ runtimes[1].name = "a"}

\* a process before its Daemon is started: new Daemon({watchConfig}).
\* `at` is the place start() has reached, `started` that start() returned true
\* and no stop() has taken effect since, `handlers` the number of times the
\* signal handlers are registered, `watchers` that configWatchers is not
\* empty, `stale` that the running start() has removed a stale PID file
NewDaemon(watchConfig) ==
    [alive |-> TRUE, at |-> "idle", started |-> FALSE, shutdownRequested |-> FALSE,
     handlers |-> 0, watchers |-> FALSE, watchConfig |-> watchConfig, stale |-> FALSE,
     exit |-> "none"]

\* no PID file, no process started; hist.raced: a step of one process's
\* start() or stop() fell between two steps of another process's start();
\* hist.burst: .yaml/.yml notifications since the last debounced reload;
\* hist.quiet: time since the last such notification, up to ReloadDebounce;
\* hist.report: how the call of handleCheckResult that has just settled
\* reported its result ("none" once the event loop has moved on)
DaemonInitWith(options) ==
    /\ pidFile = NoPid
    /\ daemons = [p \in Procs |-> NewDaemon(options[p])]
    /\ reloadTimers = Empty
    /\ apiClient = FALSE
    /\ hist = [raced |-> FALSE, burst |-> 0, quiet |-> 0, report |-> "none"]

\* watchConfig defaults to true
DaemonInit == DaemonInitWith([p \in Procs |-> TRUE])

---------------------------------------------------------------------------
\* The CLI's event queue (event-queue.json)

\* largest EVENT_QUEUE_MAX_SIZE the queue code is run with
MaxQueueSize == 2
\* most events enqueued in one behaviour
MaxEvents == 3

\* no POST of an event command is awaited
NoPost == [kind |-> "none"]

\* no `hooks agent-sync` is running
NoSync == [at |-> "none"]

\* an empty queue file, the code built with EVENT_QUEUE_MAX_SIZE = M.
\* cli.all: the events enqueued so far, in enqueue order; cli.gone: the serial
\* numbers of those dequeued or evicted since; cli.post: the event command
\* that is awaiting its POST; cli.sync: the agent-sync run in progress
QueueInit(M) ==
    /\ queue = << >>
    /\ cli = [M |-> M, all |-> << >>, gone |-> {}, post |-> NoPost, sync |-> NoSync]

---------------------------------------------------------------------------
\* The configuration files and the checkers, while they are not looked at

\* no configuration file is on the disk
NoDisk == [at |-> "none"]

\* collectRuntimes() has not been called
NotCollected == [at |-> "none"]

\* parseDuration has been given no string
NoDuration == [at |-> "none"]

\* runHealthCheck has been given no target
NoProbe == [at |-> "none"]

ConfigInit ==
    /\ disk = NoDisk
    /\ collected = NotCollected
    /\ duration = NoDuration

NoOnce == [at |-> "none"]

CheckerInit == probe = NoProbe /\ once = NoOnce

---------------------------------------------------------------------------
\* Actions

SchedulerInit ==
    /\ running = FALSE
    /\ resultHandler = FALSE
    /\ checks = << >>
    /\ timers = Empty
    /\ calls = Empty

Init ==
    /\ SchedulerInit
    /\ DaemonInit
    /\ QueueInit(MaxQueueSize)
    /\ ConfigInit
    /\ CheckerInit
    /\ last = Did("new", NoKey, "")
    /\ window = [T |-> 0, count |-> [k \in Keys |-> 0]]

\* start(onResult), on a stopped scheduler or on a running one ('Scheduler
\* already running')
Start(onResult, runtimes) ==
    /\ LET s == SchedulerStart(Sched, onResult, runtimes)
       IN  /\ Pending(s) <= MaxPending
           /\ Commit(s)
    /\ last' = Did(IF running THEN "already running" ELSE "start", NoKey, "")

\* stop()
Stop ==
    /\ running
    /\ Commit(SchedulerStop(Sched))
    /\ last' = Did("stop", NoKey, "")

\* reload()
Reload(runtimes) ==
    /\ LET s == SchedulerReload(Sched, runtimes)
       IN  /\ Pending(s) <= MaxPending
           /\ Commit(s)
    /\ last' = Did("reload", NoKey, "")

\* an armed timer reaches its time: () => this.runCheck(key)
TimerFires(t) ==
    /\ t \in DOMAIN timers
    /\ t.delay = 0
    /\ Commit(RunCheck([Sched EXCEPT !.timers = Take(@, t)], t.key))
    /\ last' = Did(IF t.key \notin DOMAIN checks \/ ~running THEN "ignored"
                    ELSE IF checks[t.key].running THEN "skipped"
                    ELSE "invoked",
                    t.key, "")

\* await runHealthCheck(runtime) returns a result
CheckerReturns(c) ==
    /\ c \in DOMAIN calls
    /\ c.at = "runHealthCheck"
    /\ IF resultHandler
       THEN /\ calls' = Put(Take(calls, c), [c EXCEPT !.at = "resultHandler"])
            /\ UNCHANGED <<running, resultHandler, checks, timers>>
            /\ last' = Did("handle", c.key, "")
       ELSE /\ Commit(RunCheckFinally(Sched, c))
            /\ last' = Did("returned", c.key, RunCheckSettles("runHealthCheck", FALSE))

\* await runHealthCheck(runtime) throws
CheckerThrows(c) ==
    /\ c \in DOMAIN calls
    /\ c.at = "runHealthCheck"
    /\ Commit(RunCheckFinally(Sched, c))
    /\ last' = Did("checkerThrew", c.key, RunCheckSettles("runHealthCheck", TRUE))

\* await this.resultHandler(runtime, result) returns (threw = FALSE) or throws
HandlerSettles(c, threw) ==
    /\ c \in DOMAIN calls
    /\ c.at = "resultHandler"
    /\ Commit(RunCheckFinally(Sched, c))
    /\ last' = Did(IF threw THEN "handlerThrew" ELSE "returned", c.key,
                    RunCheckSettles("resultHandler", threw))

\* one time unit passes: nothing is due, no probe has used up MaxDur
Advance ==
    /\ \A t \in DOMAIN timers : t.delay > 0
    /\ \A c \in DOMAIN calls : c.elapsed < MaxDur
    /\ LET Age(t) == [t EXCEPT !.delay = @ - 1]
           Wait(c) == [c EXCEPT !.elapsed = @ + 1]
       IN  /\ timers' = Map(timers, Age)
           /\ calls' = Map(calls, Wait)
    /\ checks' = [k \in DOMAIN checks |->
                    [checks[k] EXCEPT !.nextRunAt = Max(@ - 1, MinNextRunAt)]]
    /\ UNCHANGED <<running, resultHandler>>
    /\ last' = Did("advance", NoKey, "")

\* the steps of Spec keep no observation window
Plain(A) == A /\ UNCHANGED <<window, daemonVars, queueVars, configVars, checkerVars>>

Next ==
    \/ \E onResult \in BOOLEAN, runtimes \in CollectRuntimes :
            Plain(Start(onResult, runtimes))
    \/ Plain(Stop)
    \/ \E runtimes \in CollectRuntimes : Plain(Reload(runtimes))
    \/ \E t \in DOMAIN timers : Plain(TimerFires(t))
    \/ \E c \in DOMAIN calls : Plain(CheckerReturns(c))
    \/ \E c \in DOMAIN calls : Plain(CheckerThrows(c))
    \/ \E c \in DOMAIN calls, threw \in BOOLEAN : Plain(HandlerSettles(c, threw))
    \/ Plain(Advance)

Spec == Init /\ [][Next]_vars

\* Spec with the fairness the event loop gives: time passes, a timer that is due
\* fires, and every awaited checker or result-handler call settles
LiveSpec ==
    /\ Spec
    /\ WF_vars(Plain(Advance))
    /\ WF_vars(\E t \in DOMAIN timers : Plain(TimerFires(t)))
    /\ WF_vars(\E c \in DOMAIN calls : Plain(CheckerReturns(c)) \/ Plain(CheckerThrows(c)))
    /\ WF_vars(\E c \in DOMAIN calls, threw \in BOOLEAN : Plain(HandlerSettles(c, threw)))

---------------------------------------------------------------------------
\* The observation window: one start() of a fresh scheduler with a
\* configuration that names no key twice, then timers and probes only (no
\* stop(), no reload()), watched for MaxWindow time units.  window.T is the
\* time since the load, window.count[k] the checker invocations for key k.

CallsFor(k) ==
    LET ForKey(c) == c.key = k IN Size(Only(calls, ForKey))

Windowed(A) ==
    /\ A
    /\ UNCHANGED <<daemonVars, queueVars, configVars, checkerVars>>
    /\ window' = [T |-> IF last'.op = "advance" THEN window.T + 1 ELSE window.T,
                  count |-> [k \in Keys |->
                               window.count[k] + Max(0, CallsFor(k)' - CallsFor(k))]]

NoKeyTwice(runtimes) ==
    \A i, j \in DOMAIN runtimes : KeyOf(runtimes[i]) = KeyOf(runtimes[j]) => i = j

WindowNext ==
    \/ \E onResult \in BOOLEAN, runtimes \in CollectRuntimes :
            NoKeyTwice(runtimes) /\ Windowed(Start(onResult, runtimes))
    \/ \E t \in DOMAIN timers : Windowed(TimerFires(t))
    \/ \E c \in DOMAIN calls : Windowed(CheckerReturns(c))
    \/ \E c \in DOMAIN calls : Windowed(CheckerThrows(c))
    \/ \E c \in DOMAIN calls, threw \in BOOLEAN : Windowed(HandlerSettles(c, threw))
    \/ running /\ window.T < MaxWindow /\ Windowed(Advance)

WindowSpec == Init /\ [][WindowNext]_vars

---------------------------------------------------------------------------
\* runOnce().  `once` holds the call: the list collectRuntimes() returned,
\* the enabled targets still to be checked (the head is the one being
\* checked), the `results` map, and as history what the checker produced for
\* each key and the targets the checker was invoked for.  A result is
\* "success" or "failure" as the checker returned it, or "caught" for the
\* record the catch block builds.

\* the loop of runOnce as it would be without the test of runtime.enabled
OnceTargets_All(runtimes) == runtimes

\* the targets the loop of runOnce checks: `if (!runtime.enabled) continue`
OnceTargets(runtimes) ==
    LET IsEnabled(runtime) == runtime.enabled IN SelectSeq(runtimes, IsEnabled)

\* map.set(key, value)
MapSet(map, key, value) ==
    [k \in DOMAIN map \cup {key} |-> IF k = key THEN value ELSE map[k]]

\* the loop goes on to the next enabled target, or runOnce returns
OnceGoesOn(o) ==
    LET rest == Tail(o.rest)
    IN  [o EXCEPT !.rest = rest,
                  !.at = IF rest = << >> THEN "returned" ELSE "runHealthCheck",
                  !.invoked = IF rest = << >> THEN @ ELSE Append(@, Head(rest))]

\* runOnce() is called and reaches its first await
RunOnce(runtimes) ==
    /\ once = NoOnce
    /\ LET rest == OnceTargets(runtimes)
       IN  once' = [at |-> IF rest = << >> THEN "returned" ELSE "runHealthCheck",
                    runtimes |-> runtimes,
                    rest |-> rest,
                    results |-> << >>,
                    produced |-> << >>,
                    threw |-> {},
                    invoked |-> IF rest = << >> THEN << >> ELSE <<Head(rest)>>]
    /\ UNCHANGED schedVars
    /\ last' = Did("runOnce", NoKey, "")

\* await runHealthCheck(runtime) of runOnce settles: with a result, which is
\* stored and handed to the result handler if one is registered, or with a
\* rejection, for which the catch block stores its own record
OnceCheckerSettles(outcome) ==
    /\ once # NoOnce /\ once.at = "runHealthCheck"
    /\ LET key == KeyOf(Head(once.rest))
       IN  IF outcome = "threw"
           THEN once' = OnceGoesOn([once EXCEPT !.results = MapSet(@, key, "caught"),
                                               !.produced = MapSet(@, key, "threw")])
           ELSE LET stored == [once EXCEPT !.results = MapSet(@, key, outcome),
                                           !.produced = MapSet(@, key, outcome)]
                IN  once' = IF resultHandler
                            THEN [stored EXCEPT !.at = "resultHandler"]
                            ELSE OnceGoesOn(stored)
    /\ UNCHANGED schedVars
    /\ last' = Did("runOnce", NoKey, "")

\* await this.resultHandler(runtime, result) of runOnce returns or throws:
\* the await is inside the same try, so the catch block stores its record
\* under the key
OnceHandlerSettles(threw) ==
    /\ once # NoOnce /\ once.at = "resultHandler"
    /\ LET key == KeyOf(Head(once.rest))
       IN  once' = IF threw
                   THEN OnceGoesOn([once EXCEPT !.results = MapSet(@, key, "caught"),
                                               !.threw = @ \cup {key}])
                   ELSE OnceGoesOn(once)
    /\ UNCHANGED schedVars
    /\ last' = Did("runOnce", NoKey, "")

\* a step of runOnce
OfOnce(A) == A /\ UNCHANGED <<window, daemonVars, queueVars, configVars, probe>>

\* runOnce() next to a scheduler that is not started, or started and ticking
OnceNext ==
    \/ \E onResult \in BOOLEAN, runtimes \in CollectRuntimes :
            NoKeyTwice(runtimes) /\ Plain(Start(onResult, runtimes))
    \/ \E t \in DOMAIN timers : Plain(TimerFires(t))
    \/ \E c \in DOMAIN calls : Plain(CheckerReturns(c))
    \/ \E c \in DOMAIN calls : Plain(HandlerSettles(c, FALSE))
    \/ Plain(Advance)
    \/ \E runtimes \in CollectRuntimes : OfOnce(RunOnce(runtimes))
    \/ \E outcome \in {"success", "failure", "threw"} : OfOnce(OnceCheckerSettles(outcome))
    \/ \E threw \in BOOLEAN : OfOnce(OnceHandlerSettles(threw))

OnceSpec == Init /\ [][OnceNext]_vars

---------------------------------------------------------------------------
\* pid.ts

\* isProcessRunning(pid): process.kill(pid, 0) does not throw
IsProcessRunning(pid) == pid \in Procs /\ daemons[pid].alive

\* readPidFile()
ReadPidFile(file) == file

\* removePidFile as it would be if it left the file in place
RemovePidFile_Kept(file) == file

\* removePidFile()
RemovePidFile(file) == NoPid

\* isDaemonRunning as it would be without the liveness test: every PID file
\* is taken for stale
IsDaemonRunning_NoLiveness(file) ==
    IF ReadPidFile(file) = NoPid
    THEN [running |-> FALSE, pid |-> NoPid, file |-> file, stale |-> FALSE]
    ELSE [running |-> FALSE, pid |-> NoPid, file |-> RemovePidFile(file), stale |-> TRUE]

\* isDaemonRunning(): its result and the PID file it leaves (a file that
\* names a dead process is removed)
IsDaemonRunning(file) ==
    LET pid == ReadPidFile(file)
    IN  IF pid = NoPid
        THEN [running |-> FALSE, pid |-> NoPid, file |-> file, stale |-> FALSE]
        ELSE IF IsProcessRunning(pid)
        THEN [running |-> TRUE, pid |-> pid, file |-> file, stale |-> FALSE]
        ELSE [running |-> FALSE, pid |-> NoPid, file |-> RemovePidFile(file),
              stale |-> TRUE]

\* writePidFile as it would be if the write were lost
WritePidFile_Lost(p) == NoPid

\* writePidFile() by process p
WritePidFile(p) == p

\* the process a record of `last` is about
PidKey(p) == <<"pid", ToString(p)>>

\* some other process is between two steps of its start()
Raced(p) == \E q \in Procs \ {p} : daemons[q].at \in {"acquirePidFile", "writePidFile"}

Race(p) == hist' = [hist EXCEPT !.raced = @ \/ Raced(p)]

---------------------------------------------------------------------------
\* Daemon.  start() and stop() contain no await: inside one process they run
\* to the end, and only the file operations of other processes can fall
\* between their steps.

\* start() up to `const status = isDaemonRunning(); if (status.running) return false`
StartChecks(p) ==
    /\ daemons[p].alive /\ daemons[p].at = "idle"
    /\ daemons[p].handlers < MaxHandlers
    /\ LET status == IsDaemonRunning(pidFile)
       IN  /\ pidFile' = status.file
           /\ daemons' = [daemons EXCEPT
                            ![p].at = IF status.running THEN "idle" ELSE "acquirePidFile",
                            ![p].stale = status.stale]
           /\ last' = IF status.running
                      THEN Did("Daemon.start:false", PidKey(p), "")
                      ELSE Did("daemon", NoKey, "")
    /\ Race(p)
    /\ UNCHANGED <<schedVars, reloadTimers, apiClient, window, queueVars, configVars, checkerVars>>

\* acquirePidFile() up to `if (status.running) return false`
AcquireChecks(p) ==
    /\ daemons[p].alive /\ daemons[p].at = "acquirePidFile"
    /\ LET status == IsDaemonRunning(pidFile)
       IN  /\ pidFile' = status.file
           /\ daemons' = [daemons EXCEPT
                            ![p].at = IF status.running THEN "idle" ELSE "writePidFile",
                            ![p].stale = IF status.running THEN FALSE ELSE @ \/ status.stale]
           /\ last' = IF status.running
                      THEN Did("Daemon.start:false", PidKey(p), "")
                      ELSE Did("daemon", NoKey, "")
    /\ Race(p)
    /\ UNCHANGED <<schedVars, reloadTimers, apiClient, window, queueVars, configVars, checkerVars>>

\* writePidFile() and the rest of start(): setupSignalHandlers(),
\* scheduler.start(handleCheckResult), startConfigWatchers(), return true
StartWrites(p, runtimes) ==
    /\ daemons[p].alive /\ daemons[p].at = "writePidFile"
    /\ pidFile' = WritePidFile(p)
    /\ daemons' = [daemons EXCEPT ![p].at = "idle",
                                   ![p].started = TRUE,
                                   ![p].stale = FALSE,
                                   ![p].handlers = @ + 1,
                                   ![p].watchers = @ \/ daemons[p].watchConfig]
    /\ IF p = Self
       THEN LET s == SchedulerStart(Sched, TRUE, runtimes)
            IN  Pending(s) <= MaxPending /\ Commit(s)
       ELSE UNCHANGED schedVars
    /\ last' = Did("Daemon.start:true", PidKey(p), IF daemons[p].stale THEN "stale" ELSE "")
    /\ Race(p)
    /\ UNCHANGED <<reloadTimers, apiClient, window, queueVars, configVars, checkerVars>>

\* stop(), after which the process is at `then`: nothing happens once
\* shutdownRequested is set; else the watchers are closed, the scheduler is
\* stopped and the PID file is removed.  The pending reload timeout is left
\* armed.
StopThen(p, then) ==
    LET d == daemons[p]
        stopped == IF d.shutdownRequested
                   THEN d
                   ELSE [d EXCEPT !.shutdownRequested = TRUE, !.watchers = FALSE,
                                  !.started = FALSE]
    IN  /\ daemons' = [daemons EXCEPT ![p] = [stopped EXCEPT !.at = then]]
        /\ pidFile' = IF d.shutdownRequested THEN pidFile ELSE RemovePidFile(pidFile)
        /\ IF p = Self /\ ~d.shutdownRequested
           THEN Commit(SchedulerStop(Sched))
           ELSE UNCHANGED schedVars

\* stop()
DaemonStop(p) ==
    /\ daemons[p].alive /\ daemons[p].at = "idle"
    /\ StopThen(p, "idle")
    /\ last' = Did("daemon", NoKey, "")
    /\ Race(p)
    /\ UNCHANGED <<reloadTimers, apiClient, window, queueVars, configVars, checkerVars>>

\* SIGINT or SIGTERM with the handlers registered: this.stop(), and
\* process.exit(0) is reached
Terminate(p, signal) ==
    /\ daemons[p].alive /\ daemons[p].at = "idle"
    /\ daemons[p].handlers > 0
    /\ StopThen(p, "exit")
    /\ last' = Did("daemon", NoKey, "")
    /\ Race(p)
    /\ UNCHANGED <<reloadTimers, apiClient, window, queueVars, configVars, checkerVars>>

\* the process is gone, and with it the objects and timers it held
Gone(p, exit) ==
    /\ daemons' = [daemons EXCEPT ![p] = [NewDaemon(TRUE) EXCEPT !.alive = FALSE,
                                                                 !.exit = exit]]
    /\ IF p = Self
       THEN /\ Commit([running |-> FALSE, resultHandler |-> FALSE, checks |-> << >>,
                       timers |-> Empty, calls |-> Empty])
            /\ reloadTimers' = Empty
            /\ apiClient' = FALSE
            /\ hist' = [hist EXCEPT !.burst = 0, !.quiet = 0, !.report = "none"]
       ELSE UNCHANGED <<schedVars, reloadTimers, apiClient, hist>>
    /\ last' = Did("daemon", NoKey, "")
    /\ UNCHANGED <<pidFile, window, queueVars, configVars, checkerVars>>

\* process.exit(0) of the signal handler
Exit(p) ==
    /\ daemons[p].alive /\ daemons[p].at = "exit"
    /\ Gone(p, "signal")

\* the process the PID file names is killed (SIGKILL, a crash): nothing of
\* stop() runs
Die(p) ==
    /\ daemons[p].alive /\ daemons[p].at # "exit"
    /\ pidFile = p
    /\ Gone(p, "killed")

\* the SIGHUP handler as it would be without scheduler.reload()
ReloadTimes_None(s, runtimes, n) == s

RECURSIVE ReloadTimes(_, _, _)
\* scheduler.reload(), once for each registration of the SIGHUP handler
ReloadTimes(s, runtimes, n) ==
    IF n = 0 THEN s ELSE ReloadTimes(SchedulerReload(s, runtimes), runtimes, n - 1)

\* SIGHUP with the handlers registered: resetApiClient(); scheduler.reload()
Sighup(runtimes) ==
    /\ daemons[Self].alive /\ daemons[Self].at = "idle"
    /\ daemons[Self].handlers > 0
    /\ apiClient' = FALSE
    /\ LET s == ReloadTimes(Sched, runtimes, daemons[Self].handlers)
       IN  Pending(s) <= MaxPending /\ Commit(s)
    /\ last' = Did("SIGHUP", NoKey, "")
    /\ UNCHANGED <<pidFile, daemons, reloadTimers, hist, window, queueVars, configVars, checkerVars>>

\* scheduleReload as it would be without clearTimeout(this.reloadTimeout)
ScheduleReload_NotCleared(B) ==
    LET NoHandle(t) == [t EXCEPT !.handle = FALSE]
    IN  Put(Map(B, NoHandle), [delay |-> ReloadDebounce, handle |-> TRUE])

\* scheduleReload(): the timeout this.reloadTimeout names is cleared, a new
\* one is armed
ScheduleReload(B) ==
    LET Orphan(t) == ~t.handle
    IN  Put(Only(B, Orphan), [delay |-> ReloadDebounce, handle |-> TRUE])

\* a watcher of the daemon reports a change of `filename`
ConfigChanged(filename) ==
    /\ daemons[Self].alive /\ daemons[Self].at = "idle"
    /\ daemons[Self].watchers
    /\ IF filename \in {"hooks.yaml", "hooks.yml"}
       THEN /\ hist.burst < MaxBurst
            /\ reloadTimers' = ScheduleReload(reloadTimers)
            /\ hist' = [hist EXCEPT !.burst = @ + 1, !.quiet = 0]
            /\ last' = Did("daemon", NoKey, "")
       ELSE /\ UNCHANGED <<reloadTimers, hist>>
            /\ last' = Did("daemon", NoKey, "")
    /\ UNCHANGED <<schedVars, pidFile, daemons, apiClient, window, queueVars, configVars, checkerVars>>

\* the reload timeout reaches its time: resetApiClient(); scheduler.reload()
ReloadTimeoutFires(t, runtimes) ==
    /\ daemons[Self].alive /\ daemons[Self].at = "idle"
    /\ t \in DOMAIN reloadTimers
    /\ t.delay = 0
    /\ reloadTimers' = Take(reloadTimers, t)
    /\ apiClient' = FALSE
    /\ LET s == SchedulerReload(Sched, runtimes)
       IN  Pending(s) <= MaxPending /\ Commit(s)
    /\ hist' = [hist EXCEPT !.burst = 0]
    /\ last' = Did("debouncedReload", NoKey, IF hist.burst > 1 THEN "burst" ELSE "single")
    /\ UNCHANGED <<pidFile, daemons, window, queueVars, configVars, checkerVars>>

\* a step of the daemon's event loop that belongs to its scheduler;
\* handleCheckResult calls getApiClient(), which creates the singleton
OfScheduler(A) ==
    /\ daemons[Self].alive /\ daemons[Self].at = "idle"
    /\ A
    /\ apiClient' = (apiClient \/ last'.op = "handle")
    /\ hist' = [hist EXCEPT !.report = "none"]
    /\ UNCHANGED <<pidFile, daemons, reloadTimers, window, queueVars, configVars, checkerVars>>

\* what the fetch of reportRuntimeStatus may come to: a 2xx response, another
\* response, a rejection (network error), the abort at this.timeout
Outcomes == {"accepted", "non-2xx", "network error", "timeout"}

\* await fetch(url, {.., signal}): resolves with a response, or rejects
Fetch(outcome) ==
    [threw |-> outcome \in {"network error", "timeout"}, ok |-> outcome = "accepted"]

\* reportRuntimeStatus as it would be without its try/catch
ReportRuntimeStatus_NoCatch(authenticated, outcome) ==
    IF ~authenticated
    THEN [threw |-> FALSE, value |-> FALSE, report |-> "skipped"]
    ELSE [threw |-> Fetch(outcome).threw, value |-> Fetch(outcome).ok, report |-> outcome]

\* ApiClient.reportRuntimeStatus(request): the boolean it resolves to
ReportRuntimeStatus(authenticated, outcome) ==
    IF ~authenticated
    THEN [threw |-> FALSE, value |-> FALSE, report |-> "skipped"]
    ELSE LET response == Fetch(outcome)
         IN  IF response.threw
             THEN [threw |-> FALSE, value |-> FALSE, report |-> outcome]
             ELSE [threw |-> FALSE, value |-> response.ok, report |-> outcome]

\* handleCheckResult(runtime, result) from getApiClient() on: the report is
\* awaited when the client is authenticated, its boolean is not read
HandleCheckResult(result, authenticated, outcome) ==
    IF authenticated
    THEN LET reported == ReportRuntimeStatus(authenticated, outcome)
         IN  [threw |-> reported.threw, report |-> reported.report]
    ELSE [threw |-> FALSE, report |-> "not authenticated"]

\* the call of handleCheckResult the scheduler awaits settles
ResultHandled(c, result, authenticated, outcome) ==
    /\ daemons[Self].alive /\ daemons[Self].at = "idle"
    /\ LET handled == HandleCheckResult(result, authenticated, outcome)
       IN  /\ HandlerSettles(c, handled.threw)
           /\ hist' = [hist EXCEPT !.report = handled.report]
    /\ UNCHANGED <<pidFile, daemons, reloadTimers, apiClient, window, queueVars, configVars, checkerVars>>

\* one time unit passes in the daemon: no timeout of it is due
DaemonAdvance ==
    /\ daemons[Self].alive /\ daemons[Self].at = "idle"
    /\ \A t \in DOMAIN reloadTimers : t.delay > 0
    /\ Advance
    /\ LET Age(t) == [t EXCEPT !.delay = @ - 1]
       IN  reloadTimers' = Map(reloadTimers, Age)
    /\ hist' = [hist EXCEPT !.quiet = IF @ < ReloadDebounce THEN @ + 1 ELSE @,
                            !.report = "none"]
    /\ UNCHANGED <<pidFile, daemons, apiClient, window, queueVars, configVars, checkerVars>>

\* the daemon process Self alone: its life cycle, the signals it gets, its
\* config watchers and the event loop of its scheduler
DaemonNext ==
    \/ StartChecks(Self)
    \/ AcquireChecks(Self)
    \/ \E runtimes \in DaemonRuntimes : StartWrites(Self, runtimes)
    \/ DaemonStop(Self)
    \/ \E signal \in {"SIGINT", "SIGTERM"} : Terminate(Self, signal)
    \/ Exit(Self)
    \/ Die(Self)
    \/ \E runtimes \in DaemonRuntimes : Sighup(runtimes)
    \/ \E filename \in {"hooks.yaml", "hooks.yml", "notes.txt"} : ConfigChanged(filename)
    \/ \E t \in DOMAIN reloadTimers, runtimes \in DaemonRuntimes :
            ReloadTimeoutFires(t, runtimes)
    \/ \E t \in DOMAIN timers : OfScheduler(TimerFires(t))
    \/ \E c \in DOMAIN calls : OfScheduler(CheckerReturns(c))
    \/ \E c \in DOMAIN calls : OfScheduler(CheckerThrows(c))
    \/ \E c \in DOMAIN calls, success, authenticated \in BOOLEAN, outcome \in Outcomes :
            ResultHandled(c, [success |-> success], authenticated, outcome)
    \/ DaemonAdvance

\* the processes that share the PID file: the steps of their start() and
\* stop() calls in any interleaving, their signals and their deaths
PidNext ==
    \/ \E p \in Procs : StartChecks(p)
    \/ \E p \in Procs : AcquireChecks(p)
    \/ \E p \in Procs, runtimes \in DaemonRuntimes : StartWrites(p, runtimes)
    \/ \E p \in Procs : DaemonStop(p)
    \/ \E p \in Procs, signal \in {"SIGINT", "SIGTERM"} : Terminate(p, signal)
    \/ \E p \in Procs : Exit(p)
    \/ \E p \in Procs : Die(p)

DaemonSpecInit ==
    /\ SchedulerInit
    /\ \E watchConfig \in BOOLEAN :
            DaemonInitWith([p \in Procs |-> IF p = Self THEN watchConfig ELSE TRUE])
    /\ QueueInit(MaxQueueSize)
    /\ ConfigInit
    /\ CheckerInit
    /\ last = Did("new", NoKey, "")
    /\ window = [T |-> 0, count |-> [k \in Keys |-> 0]]

DaemonSpec == DaemonSpecInit /\ [][DaemonNext]_vars

PidSpec == DaemonSpecInit /\ [][PidNext]_vars

---------------------------------------------------------------------------
\* Readings of the state used by the properties

\* armed timers that will call runCheck(k)
TimersFor(k) ==
    LET ForKey(t) == t.key = k IN Size(Only(timers, ForKey))

\* checker invocations (runHealthCheck) pending for key k
InFlight(k) ==
    LET Checking(c) == c.key = k /\ c.at = "runHealthCheck" IN Size(Only(calls, Checking))

\* result-handler calls pending
Handling(B) ==
    LET AtHandler(c) == c.at = "resultHandler" IN Size(Only(B, AtHandler))

\* the step ends the runCheck invocation c: its finally block runs
Finishes(c) ==
    \/ CheckerThrows(c)
    \/ ~resultHandler /\ CheckerReturns(c)
    \/ \E threw \in BOOLEAN : HandlerSettles(c, threw)

\* the timer scheduleNext arms for the entry under key k
NextTimer(k) ==
    [key |-> k, delay |-> checks[k].runtime.intervalMs, handle |-> TRUE, old |-> FALSE]

EnabledKeys(runtimes) ==
    {KeyOf(runtimes[i]) : i \in {j \in DOMAIN runtimes : runtimes[j].enabled}}

---------------------------------------------------------------------------
\* C1: for every target key, in every reachable state, at most one checker
\* invocation for that key is in flight, also when the key is loaded again
\* while a check of it is pending.
C1_SingleFlight ==
    \A k \in Keys : InFlight(k) <= 1

\* C2: whenever the scheduler is running, every ScheduledCheck in the map
\* whose running flag is false has exactly one armed timer for its key.
C2_ExactlyOneTimer ==
    running => \A k \in DOMAIN checks : ~checks[k].running => TimersFor(k) = 1

\* C3: when a runCheck invocation started before a reload() ends after it and
\* the map again holds an entry under its key, that entry (running flag,
\* nextRunAt, timerId) and the armed timers are left as they were.
C3_LateCompletionDiscarded ==
    [][\A c \in DOMAIN calls :
          (c.old /\ c.key \in DOMAIN checks /\ Finishes(c))
              => (checks' = checks /\ timers' = timers)]_vars

\* C4: the result of a checker invocation that was pending when stop() or
\* reload() was called is never passed to the result handler.
C4_StaleResultDiscarded ==
    [][\A c \in DOMAIN calls :
          (c.old /\ CheckerReturns(c)) => Handling(calls') <= Handling(calls)]_vars

\* C5: a tick that fires for a target whose running flag is true invokes no
\* checker and arms exactly one next timer, for now + intervalMs; and when a
\* pending check is released, its completion starts no invocation (a skipped
\* tick is not made up for).
C5_SkippedTickNotQueued ==
    [][/\ \A t \in DOMAIN timers :
            (running /\ t.key \in DOMAIN checks /\ checks[t.key].running /\ TimerFires(t))
                => /\ calls' = calls
                   /\ Size(timers') = Size(timers)
                   /\ NextTimer(t.key) \in DOMAIN timers'
                   /\ TimersFor(t.key)' = TimersFor(t.key)
                   /\ checks'[t.key].nextRunAt = DateNow + checks[t.key].runtime.intervalMs
                   /\ checks'[t.key].running
       /\ \A c \in DOMAIN calls : Finishes(c) => calls' = Take(calls, c)]_vars

\* a tick has just been skipped: the check it found running is still pending
\* and the next timer is armed
C5_Witness ==
    /\ last.op = "skipped"
    /\ last.key \in DOMAIN checks
    /\ checks[last.key].running
    /\ InFlight(last.key) >= 1
    /\ NextTimer(last.key) \in DOMAIN timers

\* C6: whether the checker returns, the checker throws or the result handler
\* throws, the run ends with the promise of runCheck fulfilled (no exception
\* escapes); if its entry is still the one in the map, the running flag is
\* false afterwards and, with the scheduler running, exactly one timer has
\* been armed for now + intervalMs.
C6_AlwaysRescheduled ==
    [][\A c \in DOMAIN calls :
          Finishes(c)
              => /\ last'.promise = "fulfilled"
                 /\ c.current
                      => /\ ~checks'[c.key].running
                         /\ running
                              => /\ Size(timers') = Size(timers) + 1
                                 /\ NextTimer(c.key) \in DOMAIN timers'
                                 /\ checks'[c.key].timerId
                                 /\ checks'[c.key].nextRunAt
                                      = DateNow + checks[c.key].runtime.intervalMs]_vars

\* the result handler has just thrown for an entry still in the map, and the
\* entry is idle with its next timer armed
C6_Witness ==
    /\ last.op = "handlerThrew"
    /\ running
    /\ last.key \in DOMAIN checks
    /\ ~checks[last.key].running
    /\ NextTimer(last.key) \in DOMAIN timers

\* C8: after reload() on a running scheduler the keys of the map are the keys
\* of the enabled targets of the fresh configuration, each of them has its
\* checker invoked, and no timer armed before the reload leads to a checker
\* invocation afterwards.
C8_ReloadReplacesAll ==
    [][/\ \A runtimes \in CollectRuntimes :
            (running /\ Reload(runtimes))
                => /\ DOMAIN checks' = EnabledKeys(runtimes)
                   /\ \A k \in EnabledKeys(runtimes) :
                         \E c \in DOMAIN calls' :
                            c.key = k /\ c.current /\ c.at = "runHealthCheck"
       /\ \A t \in DOMAIN timers :
            (t.old /\ TimerFires(t)) => Size(calls') = Size(calls)]_vars

\* C9: after stop() returns the map is empty and no timer armed by the
\* scheduler is pending; while the scheduler is stopped no checker invocation
\* starts.
C9_StopClearsAll ==
    [][/\ Stop => (checks' = << >> /\ timers' = Empty)
       /\ (~running /\ ~running') => Size(calls') <= Size(calls)]_vars

\* C7: under LiveSpec, from any point after which the scheduler stays running
\* with no further stop() or reload(), every target in the map has its checker
\* invoked again and again.
C7_InvokedForever ==
    \A k \in Keys :
        <>[](running /\ k \in DOMAIN checks /\ last.op \notin {"stop", "reload"})
            => []<>(last.op = "invoked" /\ last.key = k)

\* every timer for key k that is due at the present instant has fired
Settled(k) ==
    \A t \in DOMAIN timers : t.key = k => t.delay > 0

\* C10 as stated: for a target with interval I whose probes take at most
\* D <= I, the number of checker invocations in a window of length T from the
\* load (counted once the timers due at T have fired) is within
\* floor(T/I) - 1 .. floor(T/I) + 1.
C10_WithinOneOfRate ==
    \A k \in DOMAIN checks :
        LET I == checks[k].runtime.intervalMs
        IN  (MaxDur <= I /\ Settled(k))
                => /\ window.count[k] >= (window.T \div I) - 1
                   /\ window.count[k] <= (window.T \div I) + 1

\* C10 as amended: the next timer is armed when the probe has finished, so
\* with probes of at most D the invocations in a window of length T from the
\* load number at least floor(T/(I+D)) and at most floor(T/I) + 1.
C10_FixedDelayCount ==
    \A k \in DOMAIN checks :
        LET I == checks[k].runtime.intervalMs
        IN  /\ window.count[k] >= window.T \div (I + MaxDur)
            /\ window.count[k] <= (window.T \div I) + 1

\* a window in which a target has fallen more than one invocation behind
\* floor(T/I), each probe having taken no longer than the interval
C10_Witness ==
    \E k \in DOMAIN checks :
        /\ MaxDur <= checks[k].runtime.intervalMs
        /\ Settled(k)
        /\ window.T = MaxWindow
        /\ window.count[k] < (window.T \div checks[k].runtime.intervalMs) - 1
        /\ window.count[k] >= 2

---------------------------------------------------------------------------
\* event-queue: the queue file holds the JSON text of {events: [..]}; every
\* operation loads the file, changes the list and saves it.
\* An event carries its id, its type, its payload and n, the serial number
\* of its creation (what createdAt and the payload tell apart in the code).
\* A payload is the set of its <<field, value>> pairs.

\* generateEventId(): random, so two events may get the same id
Ids == {"e1", "e2"}

Types == {"agent", "cron"}

\* the requests the commands build: CreateAgentEventRequest with toolName
\* given or undefined, ReportCronEventRequest
PayloadsOf(type) ==
    IF type = "agent"
    THEN {{<<"toolName", "Bash">>}, {<<"toolName", "undefined">>}}
    ELSE {{<<"jobName", "job">>}}

\* JSON.parse(JSON.stringify(event)): properties whose value is undefined
\* are left out
JsonOf(event) ==
    [event EXCEPT !.payload = {f \in @ : f[2] # "undefined"}]

\* array.slice(start)
Slice(events, start) ==
    LET len == Len(events)
        from == IF start < 0 THEN Max(len + start, 0) ELSE IF start > len THEN len ELSE start
    IN  SubSeq(events, from + 1, len)

\* loadEventQueue().events
LoadEventQueue(file) == file

\* saveEventQueue({events})
SaveEventQueue(events) == [i \in DOMAIN events |-> JsonOf(events[i])]

\* the QueuedEvent enqueueEvent builds
QueuedEvent(type, payload, id, n) ==
    [id |-> id, type |-> type, payload |-> payload, n |-> n, retryCount |-> 0]

\* enqueueEvent as it would be without the size test
EnqueueEvent_NoEviction(file, M, event) ==
    SaveEventQueue(Append(LoadEventQueue(file), event))

\* enqueueEvent(type, payload), built with EVENT_QUEUE_MAX_SIZE = M: the file
\* it leaves
EnqueueEvent(file, M, event) ==
    LET loaded == LoadEventQueue(file)
        events == IF Len(loaded) >= M THEN Slice(loaded, (0 - M) + 1) ELSE loaded
    IN  SaveEventQueue(Append(events, event))

\* getPendingEvents(type), type "" for undefined
GetPendingEvents(file, type) ==
    LET OfType(e) == e.type = type
    IN  IF type # "" THEN SelectSeq(LoadEventQueue(file), OfType) ELSE LoadEventQueue(file)

\* dequeueEvent as it would be if it removed the first event with the id only
DequeueEvent_FirstOnly(file, eventId) ==
    LET events == LoadEventQueue(file)
        hits == {i \in DOMAIN events : events[i].id = eventId}
    IN  IF hits = {}
        THEN file
        ELSE LET first == CHOOSE i \in hits : \A j \in hits : i <= j
             IN  SaveEventQueue(SubSeq(events, 1, first - 1)
                                \o SubSeq(events, first + 1, Len(events)))

\* dequeueEvent(eventId): the file it leaves (saved only when an event was
\* removed)
DequeueEvent(file, eventId) ==
    LET Other(e) == e.id # eventId
        events == SelectSeq(LoadEventQueue(file), Other)
    IN  IF Len(events) < Len(LoadEventQueue(file)) THEN SaveEventQueue(events) ELSE file

\* dequeueEvents(eventIds)
DequeueEvents(file, eventIds) ==
    LET Other(e) == e.id \notin eventIds
        events == SelectSeq(LoadEventQueue(file), Other)
    IN  IF Len(LoadEventQueue(file)) - Len(events) > 0 THEN SaveEventQueue(events) ELSE file

\* dequeueEvent as it would be if it always returned true
DequeueEventReturns_True(file, eventId) == TRUE

\* what dequeueEvent(eventId) returns
DequeueEventReturns(file, eventId) ==
    LET Other(e) == e.id # eventId
        events == SelectSeq(LoadEventQueue(file), Other)
    IN  Len(events) < Len(LoadEventQueue(file))

\* what dequeueEvents(eventIds) returns
DequeueEventsReturns(file, eventIds) ==
    LET Other(e) == e.id \notin eventIds
        events == SelectSeq(LoadEventQueue(file), Other)
    IN  Len(LoadEventQueue(file)) - Len(events)

\* the serial numbers of the events in a list
Serials(events) == {events[i].n : i \in DOMAIN events}

\* the serial numbers of the events in the file that have one of the ids
WithId(file, eventIds) ==
    {file[i].n : i \in {j \in DOMAIN file : file[j].id \in eventIds}}

\* the history after one more event was enqueued and the events `evicted`
\* were dropped for it
Enqueued(h, event, evicted) ==
    [h EXCEPT !.all = Append(@, JsonOf(event)), !.gone = @ \cup evicted]

\* the enqueue of `event` by the code under EVENT_QUEUE_MAX_SIZE = cli.M
Enqueues(h, event) ==
    /\ queue' = EnqueueEvent(queue, cli.M, event)
    /\ cli' = Enqueued(h, event, Serials(queue) \ Serials(queue'))

\* the serial number of the next event
NextSerial == Len(cli.all) + 1

---------------------------------------------------------------------------
\* Actions of the CLI.  One CLI process works on the queue file at a time.

OfCli(A) == A /\ UNCHANGED <<schedVars, daemonVars, window, configVars, checkerVars>>

\* no command of the CLI is suspended at an await
CliIdle == cli.post = NoPost /\ cli.sync = NoSync

\* enqueueEvent(type, payload)
Enqueue(type, payload, id) ==
    /\ CliIdle
    /\ NextSerial <= MaxEvents
    /\ Enqueues(cli, QueuedEvent(type, payload, id, NextSerial))
    /\ last' = Did("enqueue", NoKey, "")

\* dequeueEvent(eventId)
Dequeue(eventId) ==
    /\ CliIdle
    /\ queue' = DequeueEvent(queue, eventId)
    /\ cli' = [cli EXCEPT !.gone = @ \cup WithId(queue, {eventId})]
    /\ last' = Did("dequeue", NoKey,
                    IF DequeueEventReturns(queue, eventId) THEN "true" ELSE "false")

\* dequeueEvents(eventIds)
DequeueMany(eventIds) ==
    /\ CliIdle
    /\ queue' = DequeueEvents(queue, eventIds)
    /\ cli' = [cli EXCEPT !.gone = @ \cup WithId(queue, eventIds)]
    /\ last' = Did("dequeueEvents", NoKey, ToString(DequeueEventsReturns(queue, eventIds)))

\* `hooks agent-event` (agentEventCommand) or a cron event (sendCronEvent)
\* up to the await of the POST: an unauthenticated client queues the event
\* at once
EventCommand(kind, payload, stop, authenticated, id) ==
    /\ CliIdle
    /\ NextSerial <= MaxEvents
    /\ kind = "cron" => ~stop
    /\ IF ~authenticated
       THEN /\ Enqueues(cli, QueuedEvent(kind, payload, id, NextSerial))
            /\ last' = Did("queued", NoKey, "unauthenticated")
       ELSE /\ cli' = [cli EXCEPT !.post = [kind |-> kind, payload |-> payload,
                                             stop |-> stop]]
            /\ queue' = queue
            /\ last' = Did("post", NoKey, "")

\* the POST settles.  sendCronEvent: return true, or enqueue in the catch.
\* agentEventCommand: after the POST the try block goes on with output(..)
\* and, for a stop event, clearSession(projectPath); `threw` says that this
\* threw, and the catch of the same try enqueues the event.
PostSettles(ok, threw, id) ==
    /\ cli.post # NoPost
    /\ threw => (ok /\ cli.post.kind = "agent" /\ cli.post.stop)
    /\ LET h == [cli EXCEPT !.post = NoPost]
       IN  IF ok /\ ~threw
           THEN /\ queue' = queue
                /\ cli' = h
                /\ last' = Did("sent", NoKey, "accepted")
           ELSE /\ Enqueues(h, QueuedEvent(cli.post.kind, cli.post.payload, id, NextSerial))
                /\ last' = Did("queued", NoKey, IF ok THEN "accepted" ELSE "failed")

\* `hooks agent-sync` (agentSyncCommand) up to the first await: exit(1) for
\* an unauthenticated client, return when nothing is pending, else the loop
\* over pendingEvents = getPendingEvents('agent') starts.
\* cli.sync.before: the queue file when the run started; synced, failed: the
\* serial numbers of the events whose POST has succeeded, has failed
AgentSync(authenticated) ==
    /\ CliIdle
    /\ queue' = queue
    /\ LET pendingEvents == GetPendingEvents(queue, "agent")
       IN  IF ~authenticated
           THEN /\ cli' = cli
                /\ last' = Did("agent-sync", NoKey, "exit(1)")
           ELSE IF Len(pendingEvents) = 0
           THEN /\ cli' = cli
                /\ last' = Did("agent-sync", NoKey, "nothing pending")
           ELSE /\ cli' = [cli EXCEPT !.sync = [at |-> "post", pendingEvents |-> pendingEvents,
                                                 before |-> queue, synced |-> {},
                                                 failed |-> {}]]
                /\ last' = Did("agent-sync", NoKey, "")

\* the loop body of agentSyncCommand once the POST of `event` has settled:
\* try { await client.post(..); dequeueEvent(event.id) } catch { failed++ }
SyncBody(file, event, ok) ==
    IF ok THEN DequeueEvent(file, event.id) ELSE file

\* the POST of the event the loop of agent-sync is at settles
SyncPostSettles(ok) ==
    /\ cli.sync # NoSync
    /\ cli.sync.at = "post"
    /\ LET event == Head(cli.sync.pendingEvents)
           rest == Tail(cli.sync.pendingEvents)
       IN  /\ queue' = SyncBody(queue, event, ok)
           /\ cli' = [cli EXCEPT
                        !.gone = @ \cup (Serials(queue) \ Serials(queue')),
                        !.sync.pendingEvents = rest,
                        !.sync.at = IF rest = << >> THEN "output" ELSE "post",
                        !.sync.synced = IF ok THEN @ \cup {event.n} ELSE @,
                        !.sync.failed = IF ok THEN @ ELSE @ \cup {event.n}]
    /\ last' = Did("agent-sync", NoKey, IF ok THEN "synced" ELSE "failed")

\* the loop of agent-sync is over: the counts are printed and the command
\* returns
AgentSyncReturns ==
    /\ cli.sync # NoSync
    /\ cli.sync.at = "output"
    /\ cli' = [cli EXCEPT !.sync = NoSync]
    /\ queue' = queue
    /\ last' = Did("agent-sync", NoKey, "returned")

QueueNext ==
    \/ \E type \in Types, id \in Ids : \E payload \in PayloadsOf(type) :
            OfCli(Enqueue(type, payload, id))
    \/ \E eventId \in Ids : OfCli(Dequeue(eventId))
    \/ \E eventIds \in SUBSET Ids : OfCli(DequeueMany(eventIds))
    \/ \E kind \in Types, stop, authenticated \in BOOLEAN, id \in Ids :
            \E payload \in PayloadsOf(kind) :
                OfCli(EventCommand(kind, payload, stop, authenticated, id))
    \/ \E ok, threw \in BOOLEAN, id \in Ids : OfCli(PostSettles(ok, threw, id))
    \/ \E authenticated \in BOOLEAN : OfCli(AgentSync(authenticated))
    \/ \E ok \in BOOLEAN : OfCli(SyncPostSettles(ok))
    \/ OfCli(AgentSyncReturns)

QueueSpecInit ==
    /\ SchedulerInit
    /\ DaemonInit
    /\ \E M \in 1..MaxQueueSize : QueueInit(M)
    /\ ConfigInit
    /\ CheckerInit
    /\ last = Did("new", NoKey, "")
    /\ window = [T |-> 0, count |-> [k \in Keys |-> 0]]

QueueSpec == QueueSpecInit /\ [][QueueNext]_vars

---------------------------------------------------------------------------
\* parseDuration.  A string is the sequence of its characters.  A number of
\* milliseconds is kept as whole days and the milliseconds of the last day
\* begun, so that value * multiplier is exact for every string of the model
\* (a JavaScript number is exact up to 2^53).

\* longest string given to parseDuration
MaxLen == 5

Digits == {"0", "1", "2", "3", "4", "5", "6", "7", "8", "9"}

\* the characters the strings of the model are made of
Chars == {"0", "1", "3", "h", "m", "s", "d", "x"}

Strings(n) == UNION { [1..k -> Chars] : k \in 0..n }

DigitValue(c) ==
    CASE c = "0" -> 0 [] c = "1" -> 1 [] c = "2" -> 2 [] c = "3" -> 3 [] c = "4" -> 4
      [] c = "5" -> 5 [] c = "6" -> 6 [] c = "7" -> 7 [] c = "8" -> 8 [] c = "9" -> 9

MsPerDay == 86400000

\* a number of milliseconds below 2^31, as days and milliseconds
Ms(n) == [d |-> n \div MsPerDay, ms |-> n % MsPerDay]

\* total += ..
Plus(x, y) ==
    [d |-> x.d + y.d + ((x.ms + y.ms) \div MsPerDay), ms |-> (x.ms + y.ms) % MsPerDay]

\* the UNITS table: milliseconds in one unit
UNITS == [ms |-> 1, s |-> 1000, m |-> 60 * 1000, h |-> 60 * 60 * 1000, d |-> MsPerDay]

\* value * multiplier
Times(value, unit) ==
    LET perDay == MsPerDay \div UNITS[unit]
    IN  [d |-> value \div perDay, ms |-> (value % perDay) * UNITS[unit]]

\* parseInt(match[1], 10) for the digits s[i..j]
RECURSIVE ParseInt(_, _, _)
ParseInt(s, i, j) ==
    IF j < i THEN 0 ELSE ParseInt(s, i, j - 1) * 10 + DigitValue(s[j])

\* \d+ from position i on a digit: the last position of the run
RECURSIVE DigitsEnd(_, _)
DigitsEnd(s, i) ==
    IF i < Len(s) /\ s[i + 1] \in Digits THEN DigitsEnd(s, i + 1) ELSE i

\* the unit group as it would be with the alternatives in the order m|s|h|d|ms
UnitAt_MsLast(s, k) ==
    IF k <= Len(s) /\ s[k] \in {"s", "m", "h", "d"} THEN s[k] ELSE ""

\* (ms|s|m|h|d) at position k, the alternatives tried in this order; "" when
\* none matches
UnitAt(s, k) ==
    IF k + 1 <= Len(s) /\ s[k] = "m" /\ s[k + 1] = "s" THEN "ms"
    ELSE IF k <= Len(s) /\ s[k] \in {"s", "m", "h", "d"} THEN s[k]
    ELSE ""

\* the loop `while ((match = regex.exec(duration)) !== null)` with the search
\* at position i: a match starts at the first position from which digits and
\* a unit follow, and the next search starts behind it
RECURSIVE ParseFrom(_, _, _)
ParseFrom(s, i, total) ==
    IF i > Len(s)
    THEN total
    ELSE IF s[i] \notin Digits
    THEN ParseFrom(s, i + 1, total)
    ELSE LET j == DigitsEnd(s, i)
             unit == UnitAt(s, j + 1)
         IN  IF unit = ""
             THEN ParseFrom(s, i + 1, total)
             ELSE ParseFrom(s, j + 1 + Len(unit), Plus(total, Times(ParseInt(s, i, j), unit)))

\* parseDuration(duration)
ParseDuration(s) == ParseFrom(s, 1, Ms(0))

\* parseDuration is given a string of the model
DurationInit ==
    duration \in [at : {"input"}, input : Strings(MaxLen), output : {Ms(0)}]

\* the call parseDuration(duration.input) returns
ParseDurationReturns ==
    /\ duration.at = "input"
    /\ duration' = [duration EXCEPT !.at = "parsed", !.output = ParseDuration(duration.input)]
    /\ last' = Did("parseDuration", NoKey, "")
    /\ UNCHANGED <<schedVars, daemonVars, queueVars, window, disk, collected, checkerVars>>

DurationNext == ParseDurationReturns

DurationSpecInit ==
    /\ SchedulerInit
    /\ DaemonInit
    /\ QueueInit(MaxQueueSize)
    /\ disk = NoDisk
    /\ collected = NotCollected
    /\ DurationInit
    /\ CheckerInit
    /\ last = Did("new", NoKey, "")
    /\ window = [T |-> 0, count |-> [k \in Keys |-> 0]]

DurationSpec == DurationSpecInit /\ [][DurationNext]_vars

---------------------------------------------------------------------------
\* config.ts of the daemon: the global config, the registered projects and
\* their config files, and collectRuntimes() over them.
\* A value of a YAML document that is undefined or null is Absent; a
\* duration string is the sequence of its characters.

Absent == <<"undefined">>

\* findProjectPaths(): the registry lists two projects
RegisteredPaths == <<"/p", "/q">>

\* DEFAULTS.CHECK_INTERVAL and DEFAULTS.CHECK_TIMEOUT
CHECK_INTERVAL == 30000

CHECK_TIMEOUT == 5000

\* a `defaults` section (one without the keys when there is no section)
DefaultsOf(checkInterval, timeout) == [checkInterval |-> checkInterval, timeout |-> timeout]

\* an entry of the `runtimes` list: a mapping, or null (isNull)
RuntimeEntry(name, enabled, interval, timeout) ==
    [isNull |-> FALSE, name |-> name, enabled |-> enabled, interval |-> interval,
     timeout |-> timeout]

NullEntry == [RuntimeEntry("", "undefined", Absent, Absent) EXCEPT !.isNull = TRUE]

\* a project's config file.  state: "missing" (existsSync is false),
\* "unreadable" (readFileSync throws), "syntax error" (parseYaml throws),
\* "empty" (parseYaml returns null) or "parsed"; of a parsed document:
\* project (the section is there), defaults (a section the code has no
\* type for), runtimes ("undefined", "not iterable" or "list") and the
\* entries of the list
ProjectFile(state, project, defaults, runtimes, entries) ==
    [state |-> state, project |-> project, defaults |-> defaults, runtimes |-> runtimes,
     entries |-> entries]

NoFile(state) == ProjectFile(state, FALSE, DefaultsOf(Absent, Absent), "undefined", << >>)

\* a well-formed document with the given runtimes
Document(defaults, entries) == ProjectFile("parsed", TRUE, defaults, "list", entries)

\* loadProjectConfig(projectPath): null, or the parsed document as it is
LoadProjectConfig(file) ==
    IF file.state \in {"missing", "unreadable", "syntax error", "empty"}
    THEN [isNull |-> TRUE, config |-> file]
    ELSE [isNull |-> FALSE, config |-> file]

\* a ?? b
Coalesce(a, b) == IF a # Absent THEN a ELSE b

\* the milliseconds of a duration below 2^31, as a number
Number(dur) == dur.d * MsPerDay + dur.ms

\* the resolution as it would be without `|| DEFAULTS..`
ParseOr_NoFallback(str, fallback) == Number(ParseDuration(str))

\* parseDuration(str) || fallback
ParseOr(str, fallback) ==
    IF ParseDuration(str) = Ms(0) THEN fallback ELSE Number(ParseDuration(str))

\* the body of the inner loop of collectRuntimes for one entry: the
\* ResolvedRuntime pushed, or a TypeError (runtime is null, or
\* config.project is undefined)
Resolve(global, projectPath, config, runtime) ==
    IF runtime.isNull \/ ~config.project
    THEN [threw |-> TRUE, runtimes |-> << >>]
    ELSE LET intervalStr == Coalesce(runtime.interval,
                                     Coalesce(global.checkInterval, <<"3", "0", "s">>))
             timeoutStr == Coalesce(runtime.timeout, Coalesce(global.timeout, <<"5", "s">>))
         IN  [threw |-> FALSE,
              runtimes |-> <<[projectPath |-> projectPath,
                              name |-> runtime.name,
                              intervalMs |-> ParseOr(intervalStr, CHECK_INTERVAL),
                              timeoutMs |-> ParseOr(timeoutStr, CHECK_TIMEOUT),
                              enabled |-> runtime.enabled # "false"]>>]

\* for (const runtime of config.runtimes) { .. } from entry i on
RECURSIVE ResolveAll(_, _, _, _)
ResolveAll(global, projectPath, config, i) ==
    IF i > Len(config.entries)
    THEN [threw |-> FALSE, runtimes |-> << >>]
    ELSE LET first == Resolve(global, projectPath, config, config.entries[i])
             rest == ResolveAll(global, projectPath, config, i + 1)
         IN  IF first.threw \/ rest.threw
             THEN [threw |-> TRUE, runtimes |-> << >>]
             ELSE [threw |-> FALSE, runtimes |-> first.runtimes \o rest.runtimes]

\* the body of the outer loop of collectRuntimes for one project:
\* if (!config || !config.runtimes) continue; then the for..of, which throws
\* a TypeError when config.runtimes is not iterable
OfProject(global, projectPath, file) ==
    LET loaded == LoadProjectConfig(file)
    IN  IF loaded.isNull \/ loaded.config.runtimes = "undefined"
        THEN [threw |-> FALSE, runtimes |-> << >>]
        ELSE IF loaded.config.runtimes = "not iterable"
        THEN [threw |-> TRUE, runtimes |-> << >>]
        ELSE ResolveAll(global, projectPath, loaded.config, 1)

\* for (const projectPath of projectPaths) { .. } from project i on
RECURSIVE CollectFrom(_, _)
CollectFrom(d, i) ==
    IF i > Len(RegisteredPaths)
    THEN [threw |-> FALSE, runtimes |-> << >>]
    ELSE LET first == OfProject(d.global, RegisteredPaths[i], d.projects[RegisteredPaths[i]])
             rest == CollectFrom(d, i + 1)
         IN  IF first.threw \/ rest.threw
             THEN [threw |-> TRUE, runtimes |-> << >>]
             ELSE [threw |-> FALSE, runtimes |-> first.runtimes \o rest.runtimes]

\* collectRuntimes() over the files of d: the list it returns, or threw
CollectRuntimesOf(d) == CollectFrom(d, 1)

\* loadRuntimes() inside start() or reload(), the scheduler being s after
\* the statements before it: an exception of collectRuntimes() leaves s
LoadRuntimesOf(s, d) ==
    IF CollectRuntimesOf(d).threw THEN s ELSE LoadRuntimes(s, CollectRuntimesOf(d).runtimes)

\* start(onResult) with the configuration read from the files of d
SchedulerStartOf(s, onResult, d) ==
    IF s.running
    THEN s
    ELSE LoadRuntimesOf([s EXCEPT !.running = TRUE, !.resultHandler = onResult], d)

\* reload() with the configuration read from the files of d
SchedulerReloadOf(s, d) ==
    LET Old(t) == [t EXCEPT !.old = TRUE]
        cleared == ClearChecks(s)
    IN  LoadRuntimesOf([cleared EXCEPT !.timers = Map(@, Old)], d)

---------------------------------------------------------------------------
\* The files the configuration is read from in ConfigSpec

Str2s == <<"2", "s">>

\* project files that are skipped, that are well-formed, and that parse but
\* are not of the shape of LocalProjectConfig
SkipFiles ==
    {NoFile("missing"), NoFile("unreadable"), NoFile("syntax error"), NoFile("empty"),
     ProjectFile("parsed", TRUE, DefaultsOf(Absent, Absent), "undefined", << >>),
     ProjectFile("parsed", TRUE, DefaultsOf(Absent, Absent), "not iterable", << >>),
     ProjectFile("parsed", FALSE, DefaultsOf(Absent, Absent), "list",
                 <<RuntimeEntry("a", "undefined", Str2s, Absent)>>),
     Document(DefaultsOf(Absent, Absent), <<NullEntry>>),
     Document(DefaultsOf(Absent, Absent), <<RuntimeEntry("a", "undefined", Str2s, Absent)>>),
     Document(DefaultsOf(Absent, Absent), <<RuntimeEntry("b", "false", Str2s, Absent)>>)}

\* the values a duration key of a config file is given
TargetValues == {Absent, << >>, Str2s, <<"x">>, <<"0", "s">>}

ProjectValues == {Absent, <<"1", "m">>}

GlobalValues == {Absent, << >>, <<"3", "s">>}

\* two projects with any of SkipFiles and no global defaults
SkipDisks ==
    {[at |-> "files", global |-> DefaultsOf(Absent, Absent), projects |-> projects] :
        projects \in [{"/p", "/q"} -> SkipFiles]}

\* one project with one target, every level of the interval and of the
\* timeout given one of its values; the other project has no file
LevelDisks ==
    {[at |-> "files",
      global |-> DefaultsOf(v[3], w[3]),
      projects |-> [path \in {"/p", "/q"} |->
                      IF path = "/p"
                      THEN Document(DefaultsOf(v[2], w[2]),
                                    <<RuntimeEntry("a", "undefined", v[1], w[1])>>)
                      ELSE NoFile("missing")]] :
        v \in TargetValues \X ProjectValues \X GlobalValues,
        w \in {Absent, << >>, <<"1", "s">>} \X ProjectValues \X {Absent, <<"4", "s">>}}

\* collectRuntimes() is called and returns or throws
Collect ==
    /\ collected' = [at |-> IF CollectRuntimesOf(disk).threw THEN "threw" ELSE "returned",
                     runtimes |-> CollectRuntimesOf(disk).runtimes]
    /\ last' = Did("collectRuntimes", NoKey, "")
    /\ UNCHANGED schedVars

\* scheduler.start(onResult) on the files of the disk
StartOf(onResult) ==
    /\ LET s == SchedulerStartOf(Sched, onResult, disk)
       IN  /\ Pending(s) <= MaxPending
           /\ Commit(s)
    /\ last' = Did(IF running THEN "already running" ELSE "start", NoKey,
                    IF ~running /\ CollectRuntimesOf(disk).threw THEN "threw" ELSE "")
    /\ UNCHANGED collected

\* scheduler.reload() on the files of the disk
ReloadOf ==
    /\ LET s == SchedulerReloadOf(Sched, disk)
       IN  /\ Pending(s) <= MaxPending
           /\ Commit(s)
    /\ last' = Did("reload", NoKey, IF CollectRuntimesOf(disk).threw THEN "threw" ELSE "")
    /\ UNCHANGED collected

\* a step of ConfigSpec: the files stay as they are
OfConfig(A) ==
    /\ A
    /\ UNCHANGED <<daemonVars, queueVars, window, disk, duration, checkerVars>>

ConfigNext ==
    \/ OfConfig(Collect)
    \/ \E onResult \in BOOLEAN : OfConfig(StartOf(onResult))
    \/ OfConfig(ReloadOf)
    \/ OfConfig(Stop /\ UNCHANGED collected)

ConfigSpecInit ==
    /\ SchedulerInit
    /\ DaemonInit
    /\ QueueInit(MaxQueueSize)
    /\ disk \in SkipDisks \cup LevelDisks
    /\ collected = NotCollected
    /\ duration = NoDuration
    /\ CheckerInit
    /\ last = Did("new", NoKey, "")
    /\ window = [T |-> 0, count |-> [k \in Keys |-> 0]]

ConfigSpec == ConfigSpecInit /\ [][ConfigNext]_vars

---------------------------------------------------------------------------
\* The checkers.  A target is the ResolvedRuntime reduced to what the
\* checkers read: its type, whether the field its type needs is given (url;
\* host and port; match; container; command), whether a given port is one
\* net.createConnection accepts, expectedStatus and successExitCode
\* (Undefined when the key is left out).  A message is the sequence of its
\* parts.

Undefined == 0 - 1

\* the keys of the `checkers` registry
CheckerTypes == {"http", "tcp", "process", "docker", "command"}

\* the keys the registry object inherits from Object.prototype, one of them
InheritedKeys == {"toString"}

StatusCodes == {200, 204, 404, 500}

ExitCodes == {0, 1, 2, 3}

Target(type, given, port, expectedStatus, successExitCode) ==
    [type |-> type, given |-> given, port |-> port, expectedStatus |-> expectedStatus,
     successExitCode |-> successExitCode]

\* the targets handed to runHealthCheck
ProbeTargets ==
    {Target("http", given, "none", expectedStatus, Undefined) :
        given \in BOOLEAN, expectedStatus \in {Undefined, 200, 204, 500}}
    \cup {Target("tcp", given, port, Undefined, Undefined) :
        given \in BOOLEAN, port \in {"in range", "out of range"}}
    \cup {Target("command", given, "none", Undefined, successExitCode) :
        given \in BOOLEAN, successExitCode \in {Undefined, 0, 2}}
    \cup {Target(type, given, "none", Undefined, Undefined) :
        type \in {"process", "docker"}, given \in BOOLEAN}
    \cup {Target(type, TRUE, "none", Undefined, Undefined) : type \in {"ftp", "toString"}}

\* what the awaited call of a checker comes to.  fetch: a response with a
\* status, a rejection, the abort at timeoutMs.  exec: an exit code, the kill
\* at timeoutMs (code null), a spawn error (code a string); for pgrep and
\* docker inspect also what they print
Outcome(kind, code) == [kind |-> kind, code |-> code]

OutcomesOf(type) ==
    CASE type = "http" ->
            {Outcome("response", status) : status \in StatusCodes}
            \cup {Outcome("network error", Undefined), Outcome("abort", Undefined)}
      [] type = "command" ->
            {Outcome("exit", code) : code \in ExitCodes}
            \cup {Outcome("killed", Undefined), Outcome("spawn error", Undefined)}
      [] type = "process" ->
            {Outcome("pids", 0), Outcome("no pids", 0), Outcome("exit", 1),
             Outcome("killed", Undefined)}
      [] type = "docker" ->
            {Outcome("running:healthy", 0), Outcome("running", 0),
             Outcome("running:unhealthy", 0), Outcome("exited", 0), Outcome("exit", 1)}
      [] OTHER -> {}

\* successResult(responseTimeMs, extra)
SuccessResult(statusCode) ==
    [success |-> TRUE, errorMessage |-> << >>, statusCode |-> statusCode]

\* failureResult(errorMessage, extra)
FailureResult(errorMessage, statusCode) ==
    [success |-> FALSE, errorMessage |-> errorMessage, statusCode |-> statusCode]

\* a ?? b for numbers
OrElse(a, b) == IF a # Undefined THEN a ELSE b

\* the promise of an async call: resolved with a result, or rejected
Resolved(result) == [promise |-> "resolved", result |-> result]

Rejected == [promise |-> "rejected", result |-> FailureResult(<<"(no result)">>, Undefined)]

\* HttpChecker.check as it would be if it tested response.ok
HttpCheck_AnyOk(target, outcome) ==
    IF outcome.kind = "response" /\ outcome.code \in {200, 204}
    THEN Resolved(SuccessResult(outcome.code))
    ELSE Resolved(FailureResult(<<"failed">>, Undefined))

\* HttpChecker.check from the await of fetch on
HttpCheck(target, outcome) ==
    LET expectedStatus == OrElse(target.expectedStatus, 200)
    IN  IF outcome.kind = "response"
        THEN IF outcome.code # expectedStatus
             THEN Resolved(FailureResult(<<"Unexpected status: ", ToString(outcome.code),
                                           " (expected ", ToString(expectedStatus), ")">>,
                                         outcome.code))
             ELSE Resolved(SuccessResult(outcome.code))
        ELSE IF outcome.kind = "abort"
        THEN Resolved(FailureResult(<<"Request timed out after ", "timeoutMs", "ms">>,
                                    Undefined))
        ELSE Resolved(FailureResult(<<"fetch failed">>, Undefined))

\* CommandChecker.check from the await of execAsync on: exec resolves when
\* the command exits with code 0 and rejects with err.code otherwise
CommandCheck(target, outcome) ==
    LET successExitCode == OrElse(target.successExitCode, 0)
    IN  IF outcome.kind = "exit" /\ outcome.code = 0
        THEN Resolved(SuccessResult(Undefined))
        ELSE IF outcome.kind = "exit" /\ outcome.code = successExitCode
        THEN Resolved(SuccessResult(Undefined))
        ELSE IF outcome.kind = "exit"
        THEN Resolved(FailureResult(<<"Command exited with code ", ToString(outcome.code)>>,
                                    Undefined))
        ELSE Resolved(FailureResult(<<"Command exited with code ", outcome.kind>>, Undefined))

\* ProcessChecker.check from the await of execAsync on
ProcessCheck(target, outcome) ==
    IF outcome.kind = "pids"
    THEN Resolved(SuccessResult(Undefined))
    ELSE IF outcome.kind \in {"no pids", "exit"}
    THEN Resolved(FailureResult(<<"No process matching \"", "match", "\" found">>, Undefined))
    ELSE Resolved(FailureResult(<<"Command failed">>, Undefined))

\* DockerChecker.check from the await of execAsync on
DockerCheck(target, outcome) ==
    IF outcome.kind \in {"running:healthy", "running"}
    THEN Resolved(SuccessResult(Undefined))
    ELSE IF outcome.kind = "running:unhealthy"
    THEN Resolved(FailureResult(<<"Container health check: ", "unhealthy">>, Undefined))
    ELSE IF outcome.kind = "exited"
    THEN Resolved(FailureResult(<<"Container is ", "exited">>, Undefined))
    ELSE Resolved(FailureResult(<<"Command failed">>, Undefined))

\* the message of a checker whose field is not given
InvalidConfiguration(type) ==
    CASE type = "http" -> <<"Invalid HTTP configuration: missing URL">>
      [] type = "tcp" -> <<"Invalid TCP configuration: missing host or port">>
      [] type = "process" -> <<"Invalid process configuration: missing match pattern">>
      [] type = "docker" -> <<"Invalid Docker configuration: missing container name">>
      [] type = "command" -> <<"Invalid command configuration: missing command">>

\* runHealthCheck(runtime) and checker.check(runtime) up to the first await:
\* "pending" when the checker waits, else how the promise is settled.
\* checkers[runtime.type] is undefined for a type that is no key at all, and
\* a function that has no `check` for an inherited key (a TypeError);
\* createConnection throws inside the Promise executor for a port out of
\* range
CheckBegins(target) ==
    IF target.type \notin CheckerTypes \cup InheritedKeys
    THEN Resolved(FailureResult(<<"Unknown runtime type: ", target.type>>, Undefined))
    ELSE IF target.type \in InheritedKeys
    THEN Rejected
    ELSE IF ~target.given
    THEN Resolved(FailureResult(InvalidConfiguration(target.type), Undefined))
    ELSE IF target.type = "tcp" /\ target.port = "out of range"
    THEN Rejected
    ELSE [promise |-> "pending", result |-> FailureResult(<<"(no result)">>, Undefined)]

\* the timeout, the socket and the `resolved` flag of TcpChecker.check
NoTcp == [timer |-> FALSE, socket |-> FALSE, resolved |-> FALSE, created |-> FALSE, seen |-> {}]

\* runHealthCheck is handed a target of the model
ProbeInit ==
    probe \in [at : {"target"}, target : ProbeTargets, promise : {"none"},
               result : {FailureResult(<<"(no result)">>, Undefined)},
               outcome : {Outcome("none", Undefined)}, tcp : {NoTcp}]

\* runHealthCheck(target) is called.  The TCP checker arms its timeout
\* before createConnection, so the timeout is armed also when that throws
RunHealthCheckCalled ==
    /\ probe.at = "target"
    /\ LET begun == CheckBegins(probe.target)
           reachedTcp == probe.target.type = "tcp" /\ probe.target.given
       IN  probe' = [probe EXCEPT
                        !.at = IF begun.promise = "pending" THEN "pending" ELSE "settled",
                        !.promise = begun.promise,
                        !.result = begun.result,
                        !.tcp = IF reachedTcp
                                THEN [timer |-> TRUE, socket |-> begun.promise = "pending",
                                      resolved |-> FALSE,
                                      created |-> begun.promise = "pending", seen |-> {}]
                                ELSE NoTcp]
    /\ last' = Did("runHealthCheck", NoKey, "")

\* the awaited fetch or exec of the checker settles
AwaitSettles(outcome) ==
    /\ probe.at = "pending"
    /\ probe.target.type # "tcp"
    /\ outcome \in OutcomesOf(probe.target.type)
    /\ LET settled == CASE probe.target.type = "http" -> HttpCheck(probe.target, outcome)
                        [] probe.target.type = "command" -> CommandCheck(probe.target, outcome)
                        [] probe.target.type = "process" -> ProcessCheck(probe.target, outcome)
                        [] probe.target.type = "docker" -> DockerCheck(probe.target, outcome)
       IN  probe' = [probe EXCEPT !.at = "settled", !.promise = settled.promise,
                                  !.result = settled.result, !.outcome = outcome]
    /\ last' = Did("settled", NoKey, "")

\* what the callback of `event` resolves with
TcpResult(event) ==
    IF event = "connect"
    THEN SuccessResult(Undefined)
    ELSE IF event = "error"
    THEN FailureResult(<<"connect ECONNREFUSED">>, Undefined)
    ELSE FailureResult(<<"Connection timed out after ", "timeoutMs", "ms">>, Undefined)

\* the callbacks as they would be if each of them settled the result anew
TcpCallback_LastWins(p, event) ==
    [p EXCEPT !.tcp.timer = FALSE, !.tcp.socket = FALSE, !.tcp.resolved = TRUE,
              !.tcp.seen = @ \cup {event},
              !.at = "settled",
              !.promise = IF p.promise = "rejected" THEN @ ELSE "resolved",
              !.result = IF p.promise = "rejected" THEN @ ELSE TcpResult(event),
              !.outcome = IF p.promise = "rejected" THEN @ ELSE Outcome(event, Undefined)]

\* one of the callbacks of TcpChecker.check: the connect listener, the
\* 'error' listener or the timeout.  Each does nothing when `resolved` is
\* set; else it sets the flag, clears the timeout (not the timeout itself),
\* destroys the socket and resolves; resolve() on a settled promise does
\* nothing
TcpCallback(p, event) ==
    IF p.tcp.resolved
    THEN [p EXCEPT !.tcp.timer = IF event = "timeout" THEN FALSE ELSE @,
                   !.tcp.seen = @ \cup {event}]
    ELSE [p EXCEPT
            !.tcp.timer = FALSE, !.tcp.socket = FALSE, !.tcp.resolved = TRUE,
            !.tcp.seen = @ \cup {event},
            !.at = "settled",
            !.promise = IF p.promise = "pending" THEN "resolved" ELSE @,
            !.result = IF p.promise = "pending" THEN TcpResult(event) ELSE @,
            !.outcome = IF p.promise = "pending" THEN Outcome(event, Undefined) ELSE @]

\* an event of the TCP check arrives, each at most once: the timeout once it
\* was set, connect and 'error' once the socket was created.  Node delivers
\* no cleared timeout and no event of a destroyed socket; the model does not
\* rely on it and lets the event arrive, so that the callbacks' own test of
\* `resolved` is what is checked
TcpEvent(event) ==
    /\ probe.at \in {"pending", "settled"}
    /\ probe.target.type = "tcp"
    /\ event \notin probe.tcp.seen
    /\ IF event = "timeout"
       THEN probe.tcp.timer \/ probe.tcp.resolved
       ELSE probe.tcp.created
    /\ probe' = TcpCallback(probe, event)
    /\ last' = Did("tcp", NoKey, event)

\* a step of CheckerSpec
OfChecker(A) ==
    /\ A
    /\ UNCHANGED <<schedVars, daemonVars, queueVars, window, configVars, once>>

CheckerNext ==
    \/ OfChecker(RunHealthCheckCalled)
    \/ \E type \in CheckerTypes : \E outcome \in OutcomesOf(type) :
            OfChecker(AwaitSettles(outcome))
    \/ \E event \in {"connect", "error", "timeout"} : OfChecker(TcpEvent(event))

CheckerSpecInit ==
    /\ SchedulerInit
    /\ DaemonInit
    /\ QueueInit(MaxQueueSize)
    /\ ConfigInit
    /\ ProbeInit
    /\ once = NoOnce
    /\ last = Did("new", NoKey, "")
    /\ window = [T |-> 0, count |-> [k \in Keys |-> 0]]

CheckerSpec == CheckerSpecInit /\ [][CheckerNext]_vars

---------------------------------------------------------------------------
\* Readings of the daemon processes

\* the instances that are started: start() returned true, and the instance has
\* neither stopped nor died
Started == {p \in Procs : daemons[p].alive /\ daemons[p].started}

\* the PID file names a live process
HeldByLive == pidFile # NoPid /\ IsProcessRunning(pidFile)

\* the PID file names a process that is not alive
Stale == pidFile # NoPid /\ ~IsProcessRunning(pidFile)

\* C11: under PidSpec, as long as no step of one process's start() or stop()
\* has fallen between the steps of another's start(), at most one instance is
\* started.
C11_SingleInstance ==
    ~hist.raced => Cardinality(Started) <= 1

\* C12: when the PID file names a live process, start() returns false at its
\* check, and the PID file, the scheduler (no checker invoked), the signal
\* handlers and the config watchers are as they were.
C12_HeldStartRefused ==
    [][\A p \in Procs :
          (HeldByLive /\ StartChecks(p))
              => /\ last' = Did("Daemon.start:false", PidKey(p), "")
                 /\ pidFile' = pidFile
                 /\ daemons' = daemons
                 /\ UNCHANGED <<schedVars, reloadTimers>>]_vars

\* process Self has just been refused by the PID file of the other live
\* daemon; its scheduler is not running
C12_Witness ==
    /\ last = Did("Daemon.start:false", PidKey(Self), "")
    /\ pidFile # NoPid /\ pidFile # Self /\ IsProcessRunning(pidFile)
    /\ ~running /\ calls = Empty
    /\ daemons[Self].handlers = 0 /\ ~daemons[Self].watchers

C14_CheckThenWrite ==
    /\ \A p \in Procs : (last.op = "Daemon.start:true" /\ last.key = PidKey(p)) => pidFile = p
    /\ (Cardinality(Started) > 1 /\ \A p \in Procs : ~daemons[p].shutdownRequested)
            => hist.raced

\* both start() calls have returned true after interleaving, no stop() was
\* ever called, and the PID file names the process that wrote last
C14_Witness ==
    /\ Started = Procs
    /\ \A p \in Procs : ~daemons[p].shutdownRequested
    /\ hist.raced
    /\ last.op = "Daemon.start:true"
    /\ \E p \in Procs : last.key = PidKey(p) /\ pidFile = p

\* C15: under DaemonSpec, at most one reload timeout is pending; while .yaml
\* or .yml notifications are waiting for their reload, exactly one is pending
\* and it is due when ReloadDebounce has passed since the last of them; the
\* timeout fires once for the whole burst, after that quiet time, and runs
\* one reload; a notification for another file leaves the timeouts as they
\* are.
C15_DebouncedReload ==
    [][/\ Size(reloadTimers) <= 1
       /\ (daemons[Self].alive /\ hist.burst > 0)
            => \E t \in DOMAIN reloadTimers : t.delay + hist.quiet = ReloadDebounce
       /\ \A t \in DOMAIN reloadTimers, runtimes \in DaemonRuntimes :
            ReloadTimeoutFires(t, runtimes)
                => /\ hist.burst >= 1
                   /\ hist.quiet = ReloadDebounce
                   /\ reloadTimers' = Empty
                   /\ hist'.burst = 0
                   /\ checks' = SchedulerReload(Sched, runtimes).checks
                   /\ calls' = SchedulerReload(Sched, runtimes).calls
       /\ ConfigChanged("notes.txt") => reloadTimers' = reloadTimers]_vars

\* the one reload of a burst of two notifications has just run on the running
\* scheduler, and no reload timeout is left
C15_Witness ==
    /\ last = Did("debouncedReload", NoKey, "burst")
    /\ reloadTimers = Empty
    /\ running
    /\ hist.burst = 0

C17_GracefulStop ==
    daemons[Self].at = "exit"
        => (~running /\ checks = << >> /\ timers = Empty /\ pidFile # Self)

---------------------------------------------------------------------------
\* Readings of the event queue

\* the step enqueues an event
Enqueuing == Len(cli'.all) = Len(cli.all) + 1

\* the event the step enqueues, as the file holds it
Newest == cli'.all[Len(cli'.all)]

\* the events enqueued and neither dequeued nor evicted since, oldest first
Retained ==
    LET Kept(e) == e.n \notin cli.gone IN SelectSeq(cli.all, Kept)

\* how many times the event with serial number n is in the file
TimesQueued(file, n) == Cardinality({i \in DOMAIN file : file[i].n = n})

\* the step keeps the queue within M: the new event goes to the tail, and
\* from a queue that holds M events exactly the oldest is dropped
KeepsBound ==
    /\ Len(queue') <= cli.M
    /\ Len(queue) < cli.M => queue' = Append(queue, Newest)
    /\ Len(queue) = cli.M => queue' = Append(Tail(queue), Newest)

C19_PendingInOrder ==
    /\ GetPendingEvents(queue, "") = Retained
    /\ \A type \in Types :
           LET OfType(e) == e.type = type
           IN  GetPendingEvents(queue, type) = SelectSeq(Retained, OfType)

\* after a dequeue that removed an event, events of both types are pending
C19_Witness ==
    /\ last = Did("dequeue", NoKey, "true")
    /\ cli.gone # {}
    /\ \A type \in Types : Len(GetPendingEvents(queue, type)) >= 1
    /\ Len(GetPendingEvents(queue, "")) = 2

\* C20: an event command whose POST succeeded queues nothing; one that was
\* not delivered (unauthenticated client, or the POST failed) leaves its
\* event in the queue exactly once.
C20_DeliveredOrQueuedOnce ==
    [][/\ \A ok, threw \in BOOLEAN, id \in Ids :
            PostSettles(ok, threw, id)
                => IF ok
                   THEN queue' = queue /\ ~Enqueuing
                   ELSE Enqueuing /\ TimesQueued(queue', Newest.n) = 1
       /\ \A kind \in Types, stop \in BOOLEAN, id \in Ids :
            \A payload \in PayloadsOf(kind) :
                EventCommand(kind, payload, stop, FALSE, id)
                    => Enqueuing /\ TimesQueued(queue', Newest.n) = 1]_vars

---------------------------------------------------------------------------
\* Readings of an agent-sync run

\* the events of the file the run started with whose serial number is not
\* in `removed`, in their order
Without(file, removed) ==
    LET Kept(e) == e.n \notin removed IN SelectSeq(file, Kept)

\* the agent-sync run has made its last POST
SyncDone == cli.sync # NoSync /\ cli.sync.at = "output"

---------------------------------------------------------------------------
\* C22: under DaemonSpec no step changes the event queue; and for every check
\* result, authenticated or not, and every outcome of the report (accepted,
\* non-2xx, network error, timeout) the call of handleCheckResult returns
\* without throwing, the run of the check ends, and an entry that is still
\* the one in the map is idle afterwards and, with the scheduler running, has
\* its one next timer armed for now + intervalMs.
C22_ReportFailureIgnored ==
    [][/\ queue' = queue
       /\ \A c \in DOMAIN calls, success, authenticated \in BOOLEAN, outcome \in Outcomes :
            ResultHandled(c, [success |-> success], authenticated, outcome)
                => /\ last' = Did("returned", c.key, "fulfilled")
                   /\ calls' = Take(calls, c)
                   /\ c.current
                        => /\ ~checks'[c.key].running
                           /\ running
                                => /\ Size(timers') = Size(timers) + 1
                                   /\ NextTimer(c.key) \in DOMAIN timers'
                                   /\ checks'[c.key].nextRunAt
                                        = DateNow + checks[c.key].runtime.intervalMs]_vars

\* the result handler has just returned after a report that met a network
\* error: the target is idle with its next timer armed and the queue is empty
C22_Witness ==
    /\ hist.report = "network error"
    /\ last.op = "returned" /\ last.promise = "fulfilled"
    /\ running
    /\ last.key \in DOMAIN checks
    /\ ~checks[last.key].running
    /\ NextTimer(last.key) \in DOMAIN timers
    /\ queue = << >>

---------------------------------------------------------------------------
\* Readings of a duration string

\* the tokens (\d+)(ms|s|m|h|d) of s: <<i, j, unit>> for a run of digits
\* s[i..j] that no digit precedes and the unit follows
Tokens(s) ==
    {tok \in (1..Len(s)) \X (1..Len(s)) \X {"ms", "s", "m", "h", "d"} :
        /\ tok[1] <= tok[2]
        /\ \A k \in tok[1]..tok[2] : s[k] \in Digits
        /\ tok[1] > 1 => s[tok[1] - 1] \notin Digits
        /\ tok[3] = IF tok[2] + 2 <= Len(s) /\ s[tok[2] + 1] = "m" /\ s[tok[2] + 2] = "s"
                    THEN "ms"
                    ELSE IF tok[2] + 1 <= Len(s) THEN s[tok[2] + 1] ELSE ""}

RECURSIVE Pow10(_)
Pow10(n) == IF n = 0 THEN 1 ELSE 10 * Pow10(n - 1)

\* the decimal value of the digits s[i..j]
Value(s, i, j) ==
    LET RECURSIVE Dec(_)
        Dec(k) == IF k > j THEN 0 ELSE DigitValue(s[k]) * Pow10(j - k) + Dec(k + 1)
    IN  Dec(i)

\* the sum of value x multiplier over a set of tokens of s
RECURSIVE SumOf(_, _)
SumOf(s, toks) ==
    IF toks = {}
    THEN Ms(0)
    ELSE LET tok == CHOOSE x \in toks : TRUE
         IN  Plus(Times(Value(s, tok[1], tok[2]), tok[3]), SumOf(s, toks \ {tok}))

\* C25: parseDuration(s) is the sum of value x multiplier over the tokens
\* (\d+)(ms|s|m|h|d) of s, text outside the tokens ignored: 5400000 for
\* "1h30m", 30000 for "30s", 0 for the empty string and for a string with no
\* token.
C25_SumOfTokens ==
    duration.at = "parsed"
        => /\ duration.output = SumOf(duration.input, Tokens(duration.input))
           /\ duration.input = <<"1", "h", "3", "0", "m">> => duration.output = Ms(5400000)
           /\ duration.input = <<"3", "0", "s">> => duration.output = Ms(30000)
           /\ duration.input = << >> => duration.output = Ms(0)
           /\ Tokens(duration.input) = {} => duration.output = Ms(0)

\* "1h30m" has been parsed to 5400000
C25_Witness ==
    /\ duration.at = "parsed"
    /\ duration.input = <<"1", "h", "3", "0", "m">>
    /\ duration.output = Ms(5400000)

---------------------------------------------------------------------------
\* Readings of the configuration files

\* the file is a document of the shape of LocalProjectConfig: a project
\* section, and runtimes either left out or a list of mappings
WellFormed(file) ==
    /\ file.state = "parsed"
    /\ file.project
    /\ file.runtimes \in {"undefined", "list"}
    /\ \A i \in DOMAIN file.entries : ~file.entries[i].isNull

\* the targets of the well-formed project files of d, in registry order
RECURSIVE TargetsOfWellFormed(_, _)
TargetsOfWellFormed(d, i) ==
    IF i > Len(RegisteredPaths)
    THEN << >>
    ELSE LET path == RegisteredPaths[i]
             file == d.projects[path]
         IN  (IF WellFormed(file) /\ file.runtimes = "list"
              THEN ResolveAll(d.global, path, file, 1).runtimes
              ELSE << >>)
             \o TargetsOfWellFormed(d, i + 1)

\* C23: collectRuntimes() returns, whatever the project files are, the
\* targets of the well-formed ones (a project whose file is missing,
\* unreadable or malformed is passed over); and a reload() of the running
\* scheduler completes with the enabled ones of these targets in the map.
C23_BadProjectSkipped ==
    [][/\ Collect
            => /\ collected'.at = "returned"
               /\ collected'.runtimes = TargetsOfWellFormed(disk, 1)
       /\ (running /\ ReloadOf)
            => /\ last'.promise = ""
               /\ DOMAIN checks' = EnabledKeys(TargetsOfWellFormed(disk, 1))]_vars

\* the entries collectRuntimes() resolves when it does not throw, each with
\* the file it is in, in the order of the list returned
RECURSIVE SourcesOf(_, _)
SourcesOf(d, i) ==
    IF i > Len(RegisteredPaths)
    THEN << >>
    ELSE LET file == d.projects[RegisteredPaths[i]]
         IN  (IF file.state = "parsed" /\ file.runtimes = "list"
              THEN [k \in DOMAIN file.entries |-> [file |-> file, entry |-> file.entries[k]]]
              ELSE << >>)
             \o SourcesOf(d, i + 1)

\* a value is given and is not the empty string
NonEmpty(v) == v # Absent /\ v # << >>

\* the first non-empty of: target override, project defaults, global
\* defaults; parsed, with the built-in constant when there is none or it
\* parses to 0
FirstNonEmpty(target, project, global, builtin) ==
    IF NonEmpty(target) THEN ParseOr(target, builtin)
    ELSE IF NonEmpty(project) THEN ParseOr(project, builtin)
    ELSE IF NonEmpty(global) THEN ParseOr(global, builtin)
    ELSE builtin

\* the target's value when the key is given (empty or not), else the global
\* default when that key is given, else the built-in string; parsed, with
\* the built-in constant when it parses to 0
FirstGiven(target, global, string, builtin) ==
    IF target # Absent THEN ParseOr(target, builtin)
    ELSE IF global # Absent THEN ParseOr(global, builtin)
    ELSE ParseOr(string, builtin)

\* C24 as stated: the intervalMs and the timeoutMs of every resolved target
\* come from the first non-empty of target override, project defaults,
\* global defaults and the built-in constant, and are greater than 0.
C24_FirstNonEmptyLevel ==
    collected.at = "returned"
        => \A i \in DOMAIN collected.runtimes :
              LET src == SourcesOf(disk, 1)[i]
                  r == collected.runtimes[i]
              IN  /\ r.intervalMs = FirstNonEmpty(src.entry.interval,
                                                  src.file.defaults.checkInterval,
                                                  disk.global.checkInterval, CHECK_INTERVAL)
                  /\ r.timeoutMs = FirstNonEmpty(src.entry.timeout,
                                                 src.file.defaults.timeout,
                                                 disk.global.timeout, CHECK_TIMEOUT)
                  /\ r.intervalMs > 0 /\ r.timeoutMs > 0

\* C24 as amended: there is no project level, and a key that is given wins
\* also when its string is empty: intervalMs and timeoutMs come from the
\* target's key if it is given, else from the global default if that is
\* given, else from "30s" and "5s"; a string that parses to 0 gives the
\* built-in constant 30000 or 5000 whatever the later levels hold; both are
\* greater than 0.
C24_TargetThenGlobal ==
    collected.at = "returned"
        => \A i \in DOMAIN collected.runtimes :
              LET src == SourcesOf(disk, 1)[i]
                  r == collected.runtimes[i]
              IN  /\ r.intervalMs = FirstGiven(src.entry.interval, disk.global.checkInterval,
                                               <<"3", "0", "s">>, CHECK_INTERVAL)
                  /\ r.timeoutMs = FirstGiven(src.entry.timeout, disk.global.timeout,
                                              <<"5", "s">>, CHECK_TIMEOUT)
                  /\ r.intervalMs > 0 /\ r.timeoutMs > 0
                  /\ (NonEmpty(src.entry.interval)
                        /\ ParseDuration(src.entry.interval) # Ms(0))
                       => r.intervalMs = Number(ParseDuration(src.entry.interval))
                  /\ src.entry.interval = << >> => r.intervalMs = CHECK_INTERVAL
                  /\ (src.entry.interval = Absent /\ disk.global.checkInterval = <<"3", "s">>)
                       => r.intervalMs = 3000

\* a target without an interval, in a project file with defaults of "1m",
\* was resolved to the global default of 3 s; its timeout, given as the
\* empty string, to the built-in 5000 although the global default is "4s"
C24_Witness ==
    /\ collected.at = "returned"
    /\ Len(collected.runtimes) = 1
    /\ LET src == SourcesOf(disk, 1)[1]
       IN  /\ src.entry.interval = Absent
           /\ src.file.defaults.checkInterval = <<"1", "m">>
           /\ disk.global.checkInterval = <<"3", "s">>
           /\ src.entry.timeout = << >>
           /\ disk.global.timeout = <<"4", "s">>
    /\ collected.runtimes[1].intervalMs = 3000
    /\ collected.runtimes[1].timeoutMs = CHECK_TIMEOUT

\* the target is one no checker can probe: its type is no checker's, the
\* field its type needs is missing, or its port is out of range
Malformed(target) ==
    \/ target.type \notin CheckerTypes
    \/ ~target.given
    \/ target.port = "out of range"

\* C26: runHealthCheck(target) never rejects: once the call is over its
\* promise is resolved with a result, for an unknown type, a missing field
\* and an out-of-range port the result has success = false, and every result
\* with success = false carries an errorMessage.
C26_NeverRejects ==
    /\ probe.promise # "rejected"
    /\ probe.at = "settled"
         => /\ probe.promise = "resolved"
            /\ Malformed(probe.target) => ~probe.result.success
            /\ ~probe.result.success => probe.result.errorMessage # << >>

\* C27: the command checker returns success = true if and only if the exit
\* code of the command equals successExitCode (0 when not given): with
\* successExitCode = 2 an exit with 2 is a success and an exit with 0 a
\* failure.
C27_SuccessIffExitCode ==
    (probe.at = "settled" /\ probe.target.type = "command" /\ probe.target.given)
        => /\ probe.result.success
                <=> /\ probe.outcome.kind = "exit"
                    /\ probe.outcome.code = OrElse(probe.target.successExitCode, 0)
           /\ (probe.target.successExitCode = 2 /\ probe.outcome = Outcome("exit", 0))
                => ~probe.result.success

\* the message has this part
Contains(message, part) == \E i \in DOMAIN message : message[i] = part

\* C28: the HTTP checker returns success = true if and only if the response
\* status equals expectedStatus (200 when not given); on another status the
\* result has success = false and an errorMessage that contains the actual
\* status; on a network error and on the abort at timeoutMs it has
\* success = false.
C28_SuccessIffExpectedStatus ==
    (probe.at = "settled" /\ probe.target.type = "http" /\ probe.target.given)
        => /\ probe.promise = "resolved"
           /\ probe.result.success
                <=> /\ probe.outcome.kind = "response"
                    /\ probe.outcome.code = OrElse(probe.target.expectedStatus, 200)
           /\ (probe.outcome.kind = "response" /\ ~probe.result.success)
                => Contains(probe.result.errorMessage, ToString(probe.outcome.code))
           /\ probe.outcome.kind \in {"network error", "abort"} => ~probe.result.success

\* with expectedStatus 200 a response of 500 gave success = false and a
\* message that contains "500"
C28_Witness ==
    /\ probe.at = "settled"
    /\ probe.target = Target("http", TRUE, "none", 200, Undefined)
    /\ probe.outcome = Outcome("response", 500)
    /\ ~probe.result.success
    /\ Contains(probe.result.errorMessage, "500")
    /\ probe.result.statusCode = 500

\* C29: start() on a running scheduler is a no-op: whatever handler it is
\* given and whatever the configuration holds (it is not read), the map, the
\* armed timers, the running flags, the registered result handler and the
\* checker invocations in flight are what they were.
C29_StartWhileRunningNoOp ==
    [][\A onResult \in BOOLEAN, runtimes \in CollectRuntimes :
            (running /\ Start(onResult, runtimes))
                => /\ running' /\ resultHandler' = resultHandler
                   /\ checks' = checks
                   /\ timers' = timers
                   /\ calls' = calls]_vars

\* start() was called on a running scheduler that has a timer armed, a check
\* in flight and a result handler registered
C29_Witness ==
    /\ last.op = "already running"
    /\ running /\ resultHandler
    /\ timers # Empty
    /\ \E k \in DOMAIN checks : checks[k].running /\ InFlight(k) = 1

\* the targets getStatus() lists
StatusKeys == {<<c.project, c.runtime>> : c \in GetStatus(Sched).checks}

\* the step arms no timer for key k and invokes no checker for it
Quiet(k) == TimersFor(k)' <= TimersFor(k) /\ InFlight(k)' <= InFlight(k)

\* C30: after start() of a stopped scheduler and after reload() of a running
\* one, the keys of the map, and the targets getStatus() lists, are the keys
\* of the targets the configuration has enabled; the call arms no timer and
\* invokes no checker for a target that is not enabled, and no later step
\* does for a key the map does not hold.
C30_OnlyEnabledScheduled ==
    [][/\ \A onResult \in BOOLEAN, runtimes \in CollectRuntimes :
            (\/ ~running /\ Start(onResult, runtimes)
             \/ running /\ Reload(runtimes))
                => /\ DOMAIN checks' = EnabledKeys(runtimes)
                   /\ StatusKeys' = EnabledKeys(runtimes)
                   /\ \A k \in Keys \ EnabledKeys(runtimes) : Quiet(k)
       /\ \A k \in Keys : k \notin DOMAIN checks' => Quiet(k)]_vars

\* the step is a load of `runtimes`: start() of a stopped scheduler or
\* reload() of a running one
Loads(runtimes) ==
    \/ \E onResult \in BOOLEAN : ~running /\ Start(onResult, runtimes)
    \/ running /\ Reload(runtimes)

\* C31: a load starts the checker of every enabled target in the same step,
\* with no time elapsed, and arms no timer for it; the entry of a target gets
\* its first timer only in the step that completes the probe started for
\* that entry.
C31_FirstProbeAtLoad ==
    [][/\ \A runtimes \in CollectRuntimes :
            Loads(runtimes)
                => \A k \in EnabledKeys(runtimes) :
                      /\ \E c \in DOMAIN calls' :
                            /\ c.key = k /\ c.current
                            /\ c.at = "runHealthCheck" /\ c.elapsed = 0
                      /\ ~checks'[k].timerId
       /\ \A k \in DOMAIN checks \cap DOMAIN checks' :
            (~checks[k].timerId /\ checks'[k].timerId)
                => \E c \in DOMAIN calls : c.key = k /\ c.current /\ Finishes(c)]_vars

\* C35: after one start() of a configuration that names no key twice, with
\* no stop() and no reload(), no target has an armed timer while its running
\* flag is true, and a timer for a target is armed only by the step that ends
\* a runCheck of it (the probe and the result handler have finished).
C35_NoTimerWhileRunning ==
    [][\A k \in DOMAIN checks' :
          /\ checks'[k].running => TimersFor(k)' = 0
          /\ TimersFor(k)' > TimersFor(k)
                => \E c \in DOMAIN calls : c.key = k /\ Finishes(c)]_vars

\* a tick has fired for a target and started its second probe: the running
\* flag is true and no timer is armed for it
C35_Witness ==
    \E k \in DOMAIN checks :
        /\ last = Did("invoked", k, "")
        /\ window.count[k] >= 2
        /\ checks[k].running
        /\ TimersFor(k) = 0

\* two enabled targets of the configuration have key k
EnabledTwice(runtimes, k) ==
    \E i, j \in DOMAIN runtimes :
        /\ i < j
        /\ runtimes[i].enabled /\ runtimes[j].enabled
        /\ KeyOf(runtimes[i]) = k /\ KeyOf(runtimes[j]) = k

\* checker invocations for key k started since the last stop() or reload()
StartedFor(k) ==
    LET SinceLoad(c) == c.key = k /\ ~c.old IN Size(Only(calls, SinceLoad))

\* C39: a load of a configuration with two enabled targets of the same key
\* starts one checker invocation for that key and leaves one entry for it,
\* with no timer armed yet.
C39_DuplicateKeyLoadedOnce ==
    [][\A runtimes \in CollectRuntimes :
          Loads(runtimes)
            => \A k \in Keys :
                  EnabledTwice(runtimes, k)
                    => /\ StartedFor(k)' = 1
                       /\ k \in DOMAIN checks'
                       /\ ~checks'[k].timerId]_vars

\* C38: whenever the running flag of the scheduler is false, the map of
\* scheduled checks is empty, getStatus() reports no checks and no timer is
\* armed.
C38_StoppedIsEmpty ==
    ~running
        => /\ checks = << >>
           /\ GetStatus(Sched).checks = {}
           /\ timers = Empty

\* C33: the TCP check is settled by the first of connect, 'error' and
\* timeout to arrive, with success exactly when that is connect; an event
\* that arrives after the first leaves the promise and its result as they
\* are.
C33_FirstEventWins ==
    [][\A event \in {"connect", "error", "timeout"} :
          TcpEvent(event)
            => IF probe.promise = "pending"
               THEN /\ probe.tcp.seen = {}
                    /\ probe'.promise = "resolved"
                    /\ probe'.outcome.kind = event
                    /\ probe'.result.success <=> event = "connect"
               ELSE /\ probe'.promise = probe.promise
                    /\ probe'.result = probe.result
                    /\ probe'.outcome = probe.outcome]_vars

\* connect arrived first and resolved the check with success; the timeout
\* and an 'error' arrived afterwards and the result is still the success
C33_Witness ==
    /\ probe.target.type = "tcp"
    /\ probe.tcp.seen = {"connect", "error", "timeout"}
    /\ probe.promise = "resolved"
    /\ probe.outcome.kind = "connect"
    /\ probe.result.success

\* the events of the list whose id is none of eventIds, as they are
Keeping(events, eventIds) ==
    LET Other(e) == e.id \notin eventIds IN SelectSeq(events, Other)

\* C34: dequeueEvent(id) returns true if and only if the queue held an event
\* with the id; it leaves the other events, with their content and in their
\* order, and on false the queue as it was.  dequeueEvents(ids) returns the
\* number of events it removed and leaves the events with other ids.
C34_DequeueReturns ==
    [][/\ \A eventId \in Ids :
            Dequeue(eventId)
                => LET held == \E i \in DOMAIN queue : queue[i].id = eventId
                   IN  /\ last'.promise = "true" <=> held
                       /\ last'.promise = "false" <=> ~held
                       /\ queue' = Keeping(queue, {eventId})
                       /\ ~held => queue' = queue
       /\ \A eventIds \in SUBSET Ids :
            DequeueMany(eventIds)
                => /\ last'.promise = ToString(Len(queue) - Len(queue'))
                   /\ queue' = Keeping(queue, eventIds)]_vars

\* dequeueEvent returned true: it removed an event and left another one
C34_Witness ==
    /\ last = Did("dequeue", NoKey, "true")
    /\ Len(cli.all) = 3
    /\ Len(queue) = 1
    /\ cli.gone # {}

\* C37: stop() of a daemon removes the PID file only when the file names
\* the stopping process: a stop() of a process that does not hold the file
\* leaves the PID file of another live daemon in place.
C37_StopKeepsOthersPidFile ==
    [][\A p \in Procs :
          (DaemonStop(p) /\ pidFile # p /\ IsProcessRunning(pidFile))
            => pidFile' = pidFile]_vars

\* the enabled targets of a list, in its order
EnabledIn(runtimes) ==
    LET Wanted(r) == r.enabled IN SelectSeq(runtimes, Wanted)

\* C32: a step of runOnce() leaves the map, the timers, the running flags,
\* the running state and the handler of the scheduler as they are, started
\* or not; when runOnce() returns, the checker has been invoked once for each
\* enabled target of the configuration, in order, and for no disabled one.
C32_RunOnceChecksEnabledOnce ==
    [][/\ once' # once
            => /\ running' = running /\ resultHandler' = resultHandler
               /\ checks' = checks
               /\ timers' = timers
               /\ calls' = calls
       /\ once'.at = "returned" => once'.invoked = EnabledIn(once'.runtimes)]_vars

\* runOnce() has returned next to a running scheduler with a timer armed:
\* the configuration had an enabled and a disabled target and the checker
\* was invoked for the enabled one only
C32_Witness ==
    /\ once.at = "returned"
    /\ Len(once.runtimes) = 2
    /\ Len(once.invoked) = 1
    /\ once.invoked[1].enabled
    /\ running /\ timers # Empty

\* runOnce() is awaiting the checker of a target with key k
OnceInFlight(k) ==
    once.at = "runHealthCheck" /\ KeyOf(Head(once.rest)) = k

\* C36: no checker invocation of runOnce() and checker invocation of the
\* scheduler are in flight for the same key at the same time.
C36_RunOnceSingleFlight ==
    \A k \in Keys : ~(OnceInFlight(k) /\ InFlight(k) >= 1)

\* C40: when runOnce() has returned, its map holds a result for the key of
\* every enabled target, and where the checker produced a result the map
\* holds that result, also when the result handler threw for the target.
C40_RunOnceReturnsCheckerResult ==
    once.at = "returned"
        => /\ DOMAIN once.results = EnabledKeys(once.runtimes)
           /\ \A k \in DOMAIN once.results :
                 once.produced[k] # "threw" => once.results[k] = once.produced[k]

=============================================================================
